---- MODULE Spec2Model ----
(***************************************************************************)
(* Graph database adapter and query layer of sickle_graph.                 *)
(*                                                                         *)
(* The module models the two adapters of src/src/db/kuzu-adapter.ts        *)
(* (Neo4jAdapter, lines 6-303, and KuzuAdapter, lines 602-1055) with their *)
(* query cache, index registry and lifecycle, the backend they talk to,    *)
(* and the SickleGraphService facade built on them                         *)
(* (src/src/services/sickle-graph-service.ts over the Neo4jAdapter,        *)
(* src/src/types.ts, lines 1069-1387, over the KuzuAdapter).               *)
(***************************************************************************)
EXTENDS Integers, Sequences, FiniteSets, TLC

(***************************************************************************)
(* Bounds of the model.                                                    *)
(***************************************************************************)
MaxCallers == 2
MaxTicks == 2
MaxGenes == 1
MaxItems == 6

(***************************************************************************)
(* Program constants.                                                      *)
(***************************************************************************)
\* z.number().default(60): the configured cache TTL in seconds
KNOWLEDGE_GRAPH_CACHE_TTL == 60
\* the fallback of `this.config.KNOWLEDGE_GRAPH_CACHE_TTL || 60`
FallbackCacheTTL == 60
\* `cacheTTL * 1000`: seconds to milliseconds
MsPerSecond == 1000

Callers == 1..MaxCallers
\* The callers that await each operation before they start the next one.
SeqCallers == {1}
GeneIds == 1..MaxGenes

\* Date.now() advances by one of these amounts (milliseconds) between steps.
TickSteps == {500, 60000}

\* options.cacheTTL: -1 stands for an omitted option (undefined).
Undefined == -1
CacheTTLOpts == {Undefined, 0, 1}

\* The (query text, params) pairs the callers of executeQuery issue.
\* The query text is the sequence of its tokens; params is the sequence of
\* the object's entries in insertion order.
QueryInputs ==
    { << <<"MATCH", "(g:Gene)", "RETURN", "g">>, <<>> >> }

VARIABLES
    kind,        \* which adapter class the instance is: "kuzu" or "neo4j"
    configOk,    \* Neo4jAdapter: NEO4J_URI, NEO4J_USER, NEO4J_PASSWORD all set
    conn,        \* KuzuAdapter.conn: "undefined", "open" or "null"
    db,          \* KuzuAdapter.db: "undefined", "open" or "null"
    driver,      \* Neo4jAdapter.driver: "null" or "open"
    queryCache,  \* Map<cacheKey, {result, timestamp}>
    cacheOrder,  \* the keys of queryCache in the order the Map iterates them
    indexRegistry, \* Set<"label:property">
    now,         \* Date.now(), in milliseconds
    ticks,       \* number of clock advances so far (bounds the clock)
    call,        \* per caller: the executeQuery invocation in progress
    initPc,      \* "idle" or "running": an initialize() awaiting the backend
    sessions,    \* Neo4jAdapter: sessions opened and not yet closed
    dbGenes,     \* backend: ids of the Gene nodes stored
    dbProps,     \* backend: per Gene node, the properties set on it
    dbSchema,    \* backend: names of the tables, indexes, constraints defined
    fs,          \* Kuzu virtual filesystem: path -> content written
    initState,   \* history: "never", "running", "ok", "failed"
    wasClosed,   \* history: close() released a connection of this instance
    stored,      \* history: per key, the last cached execution that completed
    schemaDone,  \* history: a schema initialization completed on the database
    inj,         \* injectParams: its arguments, its loop index, finalQuery
    svc,         \* SickleGraphService: dbAdapter, initialized, its position
    km,          \* KnowledgeManager: the semaphore and item tasks of a batch
    last         \* history: the operation that completed last, and its outcome

vars == <<kind, configOk, conn, db, driver, queryCache, cacheOrder,
          indexRegistry, now,
          ticks, call, initPc, sessions, dbGenes, dbProps, dbSchema, fs,
          initState, wasClosed, stored, schemaDone, inj, svc, km, last>>
envVars == <<kind, configOk, inj, km>>
cacheVars == <<queryCache, cacheOrder>>

adapterVars == <<conn, db, driver, initPc, initState, wasClosed>>
backendVars == <<dbGenes, dbProps, dbSchema, fs>>
clockVars == <<now, ticks>>

(***************************************************************************)
(* Values.                                                                 *)
(***************************************************************************)
NoKey == <<>>
NoData == {}

NoName == <<>>

\* A statement as the backend receives it.
Stmt(verb, name, ids) == [verb |-> verb, name |-> name, ids |-> ids]
NoStmt == Stmt("", NoName, {})

\* No operation of the caller is in progress.
NoInjection ==
    [pc |-> "none", query |-> <<>>, params |-> <<>>, i |-> 0,
     finalQuery |-> <<>>]

\* No batch of the KnowledgeManager is running.
NoBatch ==
    [op |-> "none", permits |-> 0, waiting |-> <<>>, task |-> <<>>,
     released |-> <<>>, returned |-> TRUE]

\* private dbAdapter; private initialized: boolean = false
NewService == [pc |-> "new", dbAdapter |-> "undefined", initialized |-> FALSE]

IdleCall ==
    [pc |-> "idle", op |-> "", step |-> 0, arg |-> NoName, stmt |-> NoStmt,
     key |-> NoKey, useCache |-> FALSE, life |-> "none"]

\* The record `last` of an operation; every field has a value in every record.
Outcome(op, out) ==
    [op |-> op, out |-> out, arg |-> NoName, key |-> NoKey,
     useCache |-> FALSE, hit |-> FALSE, sent |-> 0, data |-> NoData,
     age |-> -1, ttl |-> -1, life |-> "none", prior |-> "none",
     connected |-> FALSE, fault |-> FALSE, cols |-> {}, adapter |-> TRUE]

(***************************************************************************)
(* Query cache.                                                            *)
(***************************************************************************)
RECURSIVE JSONEntries(_)
JSONEntries(params) ==
    IF params = <<>> THEN <<>>
    ELSE <<params[1][1], ":", params[1][2]>>
         \o (IF Len(params) > 1 THEN <<",">> ELSE <<>>)
         \o JSONEntries(Tail(params))

\* JSON.stringify(params): the entries in insertion order, one after another.
JSONStringify(params) == <<"{">> \o JSONEntries(params) \o <<"}">>

\* `${query}-${JSON.stringify(params)}`
CacheKey(query, params) == query \o <<"-">> \o JSONStringify(params)

Keys == {CacheKey(qi[1], qi[2]) : qi \in QueryInputs}

\* cacheTTL = this.config.KNOWLEDGE_GRAPH_CACHE_TTL || 60, unless the option
\* is given.
EffectiveTTL(opt) ==
    IF opt = Undefined
    THEN (IF KNOWLEDGE_GRAPH_CACHE_TTL # 0 THEN KNOWLEDGE_GRAPH_CACHE_TTL
                                           ELSE FallbackCacheTTL)
    ELSE opt

IsFresh_Inclusive(cached, cacheTTL, t) ==
    (t - cached.timestamp) <= cacheTTL * MsPerSecond

\* (Date.now() - cached.timestamp) < cacheTTL * 1000
IsFresh(cached, cacheTTL, t) ==
    (t - cached.timestamp) < cacheTTL * MsPerSecond

CacheHit_FlagIgnored(cache, key, useCache, cacheTTL, t) ==
    /\ key \in DOMAIN cache
    /\ IsFresh(cache[key], cacheTTL, t)

\* const cached = this.queryCache.get(cacheKey); if (cached && fresh) return
CacheHit(cache, key, useCache, cacheTTL, t) ==
    /\ useCache
    /\ key \in DOMAIN cache
    /\ IsFresh(cache[key], cacheTTL, t)

CachePut_Dropped(cache, key, result, t) == cache

CachePut_KeepFirst(cache, key, result, t) ==
    [k \in DOMAIN cache \cup {key} |->
        IF k \in DOMAIN cache THEN cache[k]
        ELSE [result |-> result, timestamp |-> t]]

\* this.queryCache.set(cacheKey, { result, timestamp: Date.now() })
CachePut(cache, key, result, t) ==
    [k \in DOMAIN cache \cup {key} |->
        IF k = key THEN [result |-> result, timestamp |-> t] ELSE cache[k]]

(***************************************************************************)
(* Adapter lifecycle.                                                      *)
(***************************************************************************)
\* The adapter state of the documented state machine, from the calls that
\* have completed on this instance.
LifeState ==
    IF wasClosed THEN "Closed"
    ELSE CASE initState = "never" -> "Uninitialized"
           [] initState = "running" -> "Initializing"
           [] initState = "ok" -> "Ready"
           [] OTHER -> "Failed"

\* Whether a statement of this adapter can reach the backend.
Connected ==
    IF kind = "kuzu" THEN conn = "open" ELSE driver = "open"

\* initialize() up to its first await.
InitializeBegin ==
    /\ initPc = "idle"
    /\ initState # "ok" \/ wasClosed
    /\ IF kind = "neo4j" /\ ~configOk
       THEN \* throw new Error('Neo4j configuration is incomplete')
            /\ initState' = "failed"
            /\ last' = Outcome("initialize", "ConnectionError")
            /\ UNCHANGED <<driver, initPc>>
       ELSE /\ initState' = "running"
            /\ initPc' = "running"
            /\ driver' = IF kind = "neo4j" THEN "open" ELSE driver
            /\ last' = Outcome("initialize", "pending")
    /\ UNCHANGED <<envVars, conn, db, cacheVars, indexRegistry, call,
                   sessions, wasClosed, stored, schemaDone>>
    /\ UNCHANGED <<backendVars, clockVars>>

\* The backend accepted the connection: initialize() returns.
InitializeOk ==
    /\ initPc = "running"
    /\ kind = "neo4j" => driver = "open"
    /\ initPc' = "idle"
    /\ initState' = "ok"
    /\ IF kind = "kuzu"
       THEN db' = "open" /\ conn' = "open"
       ELSE UNCHANGED <<db, conn>>
    /\ last' = Outcome("initialize", "ok")
    /\ UNCHANGED <<envVars, driver, cacheVars, indexRegistry, call,
                   sessions, wasClosed, stored, schemaDone>>
    /\ UNCHANGED <<backendVars, clockVars>>

\* The backend is unreachable: initialize() logs and rethrows.
InitializeFail ==
    /\ initPc = "running"
    /\ initPc' = "idle"
    /\ initState' = "failed"
    /\ IF kind = "kuzu"
       THEN \* Database() may have succeeded before Connection() failed
            \E d \in {db, "open"} : db' = d
       ELSE UNCHANGED db
    /\ last' = Outcome("initialize", "ConnectionError")
    /\ UNCHANGED <<envVars, conn, driver, cacheVars, indexRegistry,
                   call, sessions, wasClosed, stored, schemaDone>>
    /\ UNCHANGED <<backendVars, clockVars>>

Close_AlwaysMarksClosed ==
    /\ IF kind = "kuzu"
       THEN /\ conn' = IF conn = "open" THEN "null" ELSE conn
            /\ db' = "null"
            /\ UNCHANGED <<driver, call>>
       ELSE /\ driver' = "null"
            /\ call' = [c \in Callers |->
                          IF driver = "open" /\ call[c].pc \in {"explain", "main"}
                          THEN [call[c] EXCEPT !.pc = "dead"] ELSE call[c]]
            /\ UNCHANGED <<conn, db>>
    /\ wasClosed' = TRUE
    /\ last' = Outcome("close", "ok")
    /\ UNCHANGED <<envVars, cacheVars, indexRegistry, initPc, sessions,
                   initState, stored, schemaDone>>
    /\ UNCHANGED <<backendVars, clockVars>>

\* close()
Close ==
    /\ IF kind = "kuzu"
       THEN /\ conn' = IF conn = "open" THEN "null" ELSE conn
            /\ db' = "null"
            /\ wasClosed' = (wasClosed \/ conn = "open")
            /\ UNCHANGED <<driver, call>>
       ELSE /\ driver' = "null"
            /\ wasClosed' = (wasClosed \/ driver = "open")
            \* the sessions of a closed driver can no longer run a statement
            /\ call' = [c \in Callers |->
                          IF driver = "open" /\ call[c].pc \in {"explain", "main"}
                          THEN [call[c] EXCEPT !.pc = "dead"] ELSE call[c]]
            /\ UNCHANGED <<conn, db>>
    /\ last' = Outcome("close", "ok")
    /\ UNCHANGED <<envVars, cacheVars, indexRegistry, initPc, sessions,
                   initState, stored, schemaDone>>
    /\ UNCHANGED <<backendVars, clockVars>>

\* Neo4jAdapter.close(): driver.close() rejects, the error is rethrown and
\* this.driver is left set.
CloseFail ==
    /\ kind = "neo4j"
    /\ driver = "open"
    /\ last' = [Outcome("close", "BackendError") EXCEPT !.fault = TRUE]
    /\ UNCHANGED <<envVars, cacheVars, indexRegistry, call, sessions,
                   stored, schemaDone>>
    /\ UNCHANGED <<adapterVars, backendVars, clockVars>>

\* Time passes.
Tick ==
    /\ ticks < MaxTicks
    /\ \E d \in TickSteps : now' = now + d
    /\ ticks' = ticks + 1
    /\ UNCHANGED <<envVars, cacheVars, indexRegistry, call, sessions,
                   stored, schemaDone, last>>
    /\ UNCHANGED <<adapterVars, backendVars>>


(***************************************************************************)
(* The backend: what a statement does to the stored graph and when the     *)
(* backend rejects it.                                                     *)
(***************************************************************************)
ReadStmt == Stmt("MATCH", NoName, {})
AnalyzeStmt == Stmt("ANALYZE STATISTICS", NoName, {})

\* The ids of the data rows of a bulk file (the lines after the header).
CsvIds(content) == {content[i][1] : i \in 2..Len(content)}

\* The backend rejects the statement in its present state.
\* The text String.prototype.replace writes for a replacement that is an
\* object, as the properties of a gene are: String(value).
ObjectText == "[object Object]"

Rejects(stmt) ==
    CASE stmt.verb \in {"CREATE NODE TABLE", "CREATE REL TABLE", "CREATE INDEX"}
            -> stmt.name \in dbSchema
      [] stmt.verb = "DROP INDEX" -> stmt.name \notin dbSchema
      [] stmt.verb = "CREATE" -> stmt.ids \cap dbGenes # {}
      [] stmt.verb = "MERGE" -> stmt.name = ObjectText
      [] stmt.verb = "COPY" ->
            \/ stmt.name \notin DOMAIN fs
            \/ CsvIds(fs[stmt.name]) \cap dbGenes # {}
      [] OTHER -> FALSE

\* The stored Gene nodes after the backend executed the statement.
GenesAfter(stmt) ==
    CASE stmt.verb \in {"CREATE", "MERGE"} -> dbGenes \cup stmt.ids
      [] stmt.verb = "COPY" -> dbGenes \cup CsvIds(fs[stmt.name])
      [] OTHER -> dbGenes

\* The properties of the Gene nodes after the backend executed the
\* statement: MERGE ... SET g += $properties writes every given property, a
\* node created otherwise has none of them.
PropsAfter(stmt) ==
    [id \in GenesAfter(stmt) |->
        IF stmt.verb = "MERGE" /\ id \in stmt.ids THEN stmt.name
        ELSE IF id \in dbGenes THEN dbProps[id]
        ELSE NoName]

\* The schema objects after the backend executed the statement.
SchemaAfter(stmt) ==
    CASE stmt.verb \in {"CREATE NODE TABLE", "CREATE REL TABLE", "CREATE INDEX",
                        "CREATE CONSTRAINT IF NOT EXISTS"}
            -> dbSchema \cup {stmt.name}
      [] stmt.verb = "DROP INDEX" -> dbSchema \ {stmt.name}
      [] OTHER -> dbSchema

\* The rows the statement returns, read from the content after it ran.
RowsOf(stmt) ==
    IF stmt.verb \in {"MATCH", "CREATE"} THEN GenesAfter(stmt) ELSE NoData

(***************************************************************************)
(* The order of the cache and KuzuAdapter.clearQueryCache.                 *)
(***************************************************************************)
\* The iteration order of the Map once key has been set: a new key comes
\* last, a key that is there keeps its place.
OrderAfterSet(order, key, cache) ==
    IF key \in DOMAIN cache /\ \A i \in 1..Len(order) : order[i] # key
    THEN Append(order, key)
    ELSE order

\* A RegExp is the word it searches for and its global flag; NoPattern is
\* the argument left out.
RegExp(word, global) == [present |-> TRUE, word |-> word, global |-> global]
NoPattern == [present |-> FALSE, word |-> "", global |-> FALSE]

\* pattern.test(key) with the lastIndex of the pattern: a global pattern
\* searches from lastIndex on and leaves it after the match, or at 0 when it
\* finds none; any other pattern searches the whole key.
Test(pattern, lastIndex, key) ==
    LET from == IF pattern.global THEN lastIndex ELSE 0
        hits == {i \in (from + 1)..Len(key) : key[i] = pattern.word}
        first == CHOOSE i \in hits : \A j \in hits : i <= j
    IN IF hits = {}
       THEN [matched |-> FALSE,
             lastIndex |-> IF pattern.global THEN 0 ELSE lastIndex]
       ELSE [matched |-> TRUE,
             lastIndex |-> IF pattern.global THEN first ELSE lastIndex]

\* for (const key of this.queryCache.keys()) if (pattern.test(key)) delete:
\* the keys deleted from position i of the iteration on.
RECURSIVE Deleted(_, _, _, _)
Deleted(pattern, order, i, lastIndex) ==
    IF i > Len(order) THEN {}
    ELSE LET t == Test(pattern, lastIndex, order[i]) IN
         (IF t.matched THEN {order[i]} ELSE {})
         \cup Deleted(pattern, order, i + 1, t.lastIndex)

\* The keys of the sequence that are in the set, in their order.
RECURSIVE Kept(_, _)
Kept(order, keep) ==
    IF order = <<>> THEN <<>>
    ELSE (IF Head(order) \in keep THEN <<Head(order)>> ELSE <<>>)
         \o Kept(Tail(order), keep)

\* KuzuAdapter.clearQueryCache(pattern?)
ClearQueryCache(pattern) ==
    LET gone == IF pattern.present
                THEN Deleted(pattern, cacheOrder, 1, 0)
                ELSE DOMAIN queryCache
        keep == DOMAIN queryCache \ gone
    IN
    /\ kind = "kuzu"
    /\ queryCache' = IF keep = {} THEN <<>>
                     ELSE [k \in keep |-> queryCache[k]]
    /\ cacheOrder' = Kept(cacheOrder, keep)
    /\ last' = [Outcome("clearQueryCache", "ok") EXCEPT
                   !.arg = pattern, !.life = LifeState,
                   !.connected = Connected]
    /\ UNCHANGED <<envVars, indexRegistry, call, sessions, stored,
                   schemaDone, svc>>
    /\ UNCHANGED <<adapterVars, backendVars, clockVars>>

(***************************************************************************)
(* executeQuery.                                                           *)
(***************************************************************************)
\* What the history says about the key when a call starts: whether an
\* earlier cached execution of it completed, and how long ago.
Prior(key, useCache, cacheTTL) ==
    IF ~useCache \/ key \notin DOMAIN stored THEN "none"
    ELSE IF now - stored[key].at < cacheTTL * MsPerSecond THEN "fresh"
    ELSE "expired"

\* const knowledgeResult = { data, metadata: { ..., source } }
KnowledgeResult(data) ==
    [data |-> data, resultCount |-> Cardinality(data), source |-> kind]

\* if (!this.driver) throw new Error('Database not initialized'): the guard
\* of Neo4jAdapter.executeQuery; KuzuAdapter.executeQuery has none.
GuardRejects == kind = "neo4j" /\ driver # "open"

\* executeQuery(query, params, {useCache, cacheTTL, explain}), called by
\* operation op, from its entry to its first await or to its return.  s is
\* the number of sessions open when it is entered.
Issue(c, op, step, arg, stmt, key, useCache, ttlOpt, explain, s) ==
    LET cacheTTL == EffectiveTTL(ttlOpt)
        base == [Outcome(op, "pending") EXCEPT
                    !.arg = arg, !.key = key, !.useCache = useCache,
                    !.ttl = cacheTTL, !.life = LifeState,
                    !.connected = Connected,
                    !.prior = Prior(key, useCache, cacheTTL)]
    IN
    IF GuardRejects
    THEN \* throw new Error('Database not initialized')
         /\ last' = [base EXCEPT !.out = "NotInitialized"]
         /\ call' = [call EXCEPT ![c] = IdleCall]
         /\ sessions' = s
    ELSE IF CacheHit(queryCache, key, useCache, cacheTTL, now)
    THEN \* return cached.result (Neo4j: the session is closed in finally)
         /\ last' = [base EXCEPT !.out = "ok", !.hit = TRUE,
                        !.data = queryCache[key].result.data,
                        !.age = now - queryCache[key].timestamp]
         /\ call' = [call EXCEPT ![c] = IdleCall]
         /\ sessions' = s
    ELSE IF kind = "kuzu" /\ conn # "open"
    THEN \* this.conn.execute on undefined or null: a TypeError, rethrown
         /\ last' = [base EXCEPT !.out = "TypeError"]
         /\ call' = [call EXCEPT ![c] = IdleCall]
         /\ sessions' = s
    ELSE \* the EXPLAIN statement or the statement itself is sent
         /\ call' = [call EXCEPT ![c] =
                       [pc |-> IF explain THEN "explain" ELSE "main",
                        op |-> op, step |-> step, arg |-> arg, stmt |-> stmt,
                        key |-> key, useCache |-> useCache,
                        life |-> LifeState]]
         /\ sessions' = IF kind = "neo4j" THEN s + 1 ELSE s
         /\ last' = [base EXCEPT !.sent = 1]

\* The operation of the slot returns normally.
Done(slot, data) ==
    [Outcome(slot.op, "ok") EXCEPT
        !.arg = slot.arg, !.key = slot.key, !.useCache = slot.useCache,
        !.life = slot.life, !.connected = Connected, !.data = data]

SessionsAfter_Leaks == sessions

\* The number of sessions once the call of the slot closed its own.
SessionsAfter == IF kind = "neo4j" THEN sessions - 1 ELSE sessions

\* A caller invokes executeQuery.
ExecBegin(c, qi, useCache, ttlOpt, explain) ==
    /\ call[c].pc = "idle"
    /\ Issue(c, "executeQuery", 0, qi, ReadStmt, CacheKey(qi[1], qi[2]),
             useCache, ttlOpt, explain, sessions)
    /\ UNCHANGED <<envVars, cacheVars, indexRegistry, stored,
                   schemaDone>>
    /\ UNCHANGED <<adapterVars, backendVars, clockVars>>

\* The backend answers the EXPLAIN statement: the plan is logged and the
\* statement itself is sent.
ExecReplyExplain(c) ==
    LET slot == call[c] IN
    /\ slot.pc = "explain"
    /\ IF kind = "kuzu" /\ conn # "open"
       THEN /\ call' = [call EXCEPT ![c] = IdleCall]
            /\ last' = [Done(slot, NoData) EXCEPT !.out = "TypeError"]
       ELSE /\ call' = [call EXCEPT ![c].pc = "main"]
            /\ last' = [Done(slot, NoData) EXCEPT !.out = "pending",
                                                  !.sent = 1]
    /\ UNCHANGED <<envVars, cacheVars, indexRegistry, stored,
                   sessions, schemaDone>>
    /\ UNCHANGED <<adapterVars, backendVars, clockVars>>

\* The operations that are one executeQuery call and return its result.
FacadeReads ==
    {"searchGenes", "getGene", "findTrialsForVariant", "searchPapers",
     "searchPapersAdvanced", "getEntityCount", "searchGenesAdvanced"}

SingleOps ==
    {"executeQuery", "addNode", "importCSV", "importGeneFromAPI",
     "cacheGenes", "getGenes", "getResearchPapers"}
    \cup FacadeReads

\* The backend executes the statement of a single-statement operation: the
\* result is built, stored in the cache when asked for, and returned.
ExecReplyOk(c) ==
    LET slot == call[c]
        result == KnowledgeResult(RowsOf(slot.stmt))
    IN
    /\ slot.pc = "main"
    /\ slot.op \in SingleOps
    /\ ~Rejects(slot.stmt)
    /\ dbGenes' = GenesAfter(slot.stmt)
    /\ dbProps' = PropsAfter(slot.stmt)
    /\ dbSchema' = SchemaAfter(slot.stmt)
    /\ queryCache' = IF slot.useCache
                     THEN CachePut(queryCache, slot.key, result, now)
                     ELSE queryCache
    /\ cacheOrder' = OrderAfterSet(cacheOrder, slot.key, queryCache')
    /\ stored' = IF slot.useCache
                 THEN [k \in DOMAIN stored \cup {slot.key} |->
                         IF k = slot.key
                         THEN [data |-> result.data, at |-> now]
                         ELSE stored[k]]
                 ELSE stored
    /\ call' = [call EXCEPT ![c] = IdleCall]
    /\ sessions' = SessionsAfter
    /\ last' = Done(slot, result.data)
    /\ UNCHANGED <<envVars, indexRegistry, fs, schemaDone>>
    /\ UNCHANGED <<adapterVars, clockVars>>

ExecReplyError_EvictsKey(c) ==
    LET slot == call[c]
        keys == DOMAIN queryCache \ {slot.key}
    IN
    /\ slot.pc \in {"explain", "main", "dead"}
    /\ slot.op # "optimizeQuery"
    /\ call' = [call EXCEPT ![c] = IdleCall]
    /\ sessions' = SessionsAfter
    /\ last' = [Done(slot, NoData) EXCEPT
                   !.out = "BackendError",
                   !.fault = ~(slot.pc = "main" /\ Rejects(slot.stmt))]
    /\ queryCache' = [k \in keys |-> queryCache[k]]
    /\ cacheOrder' = SelectSeq(cacheOrder, LAMBDA k : k \in keys)
    /\ UNCHANGED <<envVars, indexRegistry, stored, schemaDone>>
    /\ UNCHANGED <<adapterVars, backendVars, clockVars>>

\* The backend fails or rejects the statement the call is waiting for: the
\* error is logged and rethrown, and the operation of the call ends with it.
ExecReplyError(c) ==
    LET slot == call[c] IN
    /\ slot.pc \in {"explain", "main", "dead"}
    /\ slot.op # "optimizeQuery"
    /\ call' = [call EXCEPT ![c] = IdleCall]
    /\ sessions' = SessionsAfter
    /\ last' = [Done(slot, NoData) EXCEPT
                   !.out = "BackendError",
                   !.fault = ~(slot.pc = "main" /\ Rejects(slot.stmt))]
    /\ UNCHANGED <<envVars, cacheVars, indexRegistry, stored,
                   schemaDone>>
    /\ UNCHANGED <<adapterVars, backendVars, clockVars>>

(***************************************************************************)
(* Mutating operations.                                                    *)
(***************************************************************************)
\* KuzuAdapter.addNode('Gene', {id}): CREATE (n:Gene {id: ...}) RETURN n.*
AddNode(c, id) ==
    /\ kind = "kuzu"
    /\ call[c].pc = "idle"
    /\ Issue(c, "addNode", 0, NoName, Stmt("CREATE", NoName, {id}), NoKey,
             FALSE, Undefined, FALSE, sessions)
    /\ UNCHANGED <<envVars, cacheVars, indexRegistry, stored,
                   schemaDone>>
    /\ UNCHANGED <<adapterVars, backendVars, clockVars>>

\* Neo4jAdapter.importGeneFromAPI(geneData): MERGE (g:Gene {id: $id})
\* SET g += $properties, the parameters handed to the driver as they are.
ImportGeneFromAPI(c, geneData) ==
    /\ kind = "neo4j"
    /\ call[c].pc = "idle"
    /\ Issue(c, "importGeneFromAPI", 0, geneData,
             Stmt("MERGE", geneData.props, {geneData.id}),
             NoKey, FALSE, Undefined, FALSE, sessions)
    /\ UNCHANGED <<envVars, cacheVars, indexRegistry, stored,
                   schemaDone>>
    /\ UNCHANGED <<adapterVars, backendVars, clockVars>>

\* NCBIService.cacheGenes(genes), for one gene of the list: the same MERGE
\* statement through KuzuAdapter.executeQuery with params {id, properties:
\* gene}, where injectParams writes the object into the query text.
CacheGenes(c, geneData) ==
    /\ kind = "kuzu"
    /\ call[c].pc = "idle"
    /\ Issue(c, "cacheGenes", 0, geneData,
             Stmt("MERGE", ObjectText, {geneData.id}),
             NoKey, FALSE, Undefined, FALSE, sessions)
    /\ UNCHANGED <<envVars, cacheVars, indexRegistry, stored,
                   schemaDone>>
    /\ UNCHANGED <<adapterVars, backendVars, clockVars>>

(***************************************************************************)
(* Operations made of several executeQuery calls: index management, schema *)
(* initialization, bulk import.  Each is a sequence of steps; a step is    *)
(* one statement, with the index key the adapter registers (createIndex)   *)
(* or removes (dropIndex) once the statement succeeded.                    *)
(***************************************************************************)
\* const indexKey = `${nodeLabel}:${propertyName}`
IndexKey(nodeLabel, propertyName) == <<nodeLabel, ":", propertyName>>

\* const indexName = `idx_${nodeLabel}_${propertyName}`
IndexName(nodeLabel, propertyName) == <<"idx_", nodeLabel, "_", propertyName>>

Step(stmt, reg, unreg) == [stmt |-> stmt, reg |-> reg, unreg |-> unreg]

\* createIndex(nodeLabel, propertyName) past its registry check.
CreateIndexStep(nodeLabel, propertyName) ==
    Step(Stmt("CREATE INDEX", IndexName(nodeLabel, propertyName), {}),
         IndexKey(nodeLabel, propertyName), NoName)

DropIndexStep_KeepsKey(nodeLabel, propertyName) ==
    Step(Stmt("DROP INDEX", IndexName(nodeLabel, propertyName), {}),
         NoName, NoName)

\* dropIndex(nodeLabel, propertyName) past its registry check.
DropIndexStep(nodeLabel, propertyName) ==
    Step(Stmt("DROP INDEX", IndexName(nodeLabel, propertyName), {}),
         NoName, IndexKey(nodeLabel, propertyName))

\* createNodeType(label, properties, primaryKey)
CreateNodeTypeSteps(label, primaryKey) ==
    <<Step(Stmt("CREATE NODE TABLE", <<label>>, {}), NoName, NoName),
      CreateIndexStep(label, primaryKey)>>

\* createRelationshipType(label, fromNode, toNode, properties)
CreateRelationshipTypeStep(label) ==
    Step(Stmt("CREATE REL TABLE", <<label>>, {}), NoName, NoName)

\* analyzeStatistics()
AnalyzeStatisticsStep == Step(AnalyzeStmt, NoName, NoName)

\* KuzuAdapter.initializeFullSchema
FullSchemaSteps ==
    CreateNodeTypeSteps("Gene", "id")
    \o CreateNodeTypeSteps("Variant", "id")
    \o CreateNodeTypeSteps("Patient", "id")
    \o CreateNodeTypeSteps("ResearchPaper", "id")
    \o <<CreateRelationshipTypeStep("HAS_VARIANT"),
         CreateRelationshipTypeStep("TARGETED_BY"),
         CreateIndexStep("Gene", "symbol"),
         CreateIndexStep("Gene", "chromosome"),
         CreateIndexStep("Variant", "clinicalSignificance"),
         CreateIndexStep("ResearchPaper", "publicationDate"),
         AnalyzeStatisticsStep>>

Neo4jConstraintStep(name) ==
    Step(Stmt("CREATE CONSTRAINT IF NOT EXISTS", <<name>>, {}), NoName, NoName)

Neo4jIndexStep(label, property) ==
    Step(Stmt("CREATE INDEX", <<"FOR", label, "ON", property>>, {}),
         NoName, NoName)

\* Neo4jAdapter.initializeSchema
Neo4jSchemaSteps ==
    <<Neo4jConstraintStep("gene_id_unique"),
      Neo4jConstraintStep("variant_id_unique"),
      Neo4jConstraintStep("treatment_id_unique"),
      Neo4jIndexStep("Gene", "symbol"),
      Neo4jIndexStep("Gene", "chromosome"),
      Neo4jIndexStep("Variant", "clinicalSignificance")>>

\* SickleGraphService.createDatabaseIndexes(): thirteen CREATE INDEX ON
\* statements given to executeQuery.
DatabaseIndexStep(label, property) ==
    Step(Stmt("CREATE INDEX", <<"ON", label, property>>, {}), NoName, NoName)

CreateDatabaseIndexesSteps ==
    <<DatabaseIndexStep("Gene", "symbol"),
      DatabaseIndexStep("Gene", "name"),
      DatabaseIndexStep("Gene", "description"),
      DatabaseIndexStep("Gene", "chromosome"),
      DatabaseIndexStep("Gene", "id"),
      DatabaseIndexStep("Variant", "id"),
      DatabaseIndexStep("ResearchPaper", "title"),
      DatabaseIndexStep("ResearchPaper", "journal"),
      DatabaseIndexStep("ResearchPaper", "publicationDate"),
      DatabaseIndexStep("ClinicalTrial", "region"),
      DatabaseIndexStep("ClinicalTrial", "status"),
      DatabaseIndexStep("ClinicalTrial", "startDate"),
      DatabaseIndexStep("Disease", "name")>>

GenesCsvPath == <<"/genes.csv">>

ImportGeneDataSteps_AnalyzeFirst ==
    <<AnalyzeStatisticsStep,
      Step(Stmt("COPY", GenesCsvPath, {}), NoName, NoName)>>

\* KuzuAdapter.importGeneData past its validation and its writeFile.
ImportGeneDataSteps ==
    <<Step(Stmt("COPY", GenesCsvPath, {}), NoName, NoName),
      AnalyzeStatisticsStep>>

SchemaOps == {"initializeFullSchema", "initializeSchema"}
ProgramOps ==
    SchemaOps
    \cup {"createIndex", "dropIndex", "importGeneData", "createDatabaseIndexes"}

\* The steps of the operation; arg is the index key for createIndex and
\* dropIndex.
Program(op, arg) ==
    CASE op = "initializeFullSchema" -> FullSchemaSteps
      [] op = "initializeSchema" -> Neo4jSchemaSteps
      [] op = "importGeneData" -> ImportGeneDataSteps
      [] op = "createIndex" -> <<CreateIndexStep(arg[1], arg[3])>>
      [] op = "dropIndex" -> <<DropIndexStep(arg[1], arg[3])>>
      [] op = "createDatabaseIndexes" -> CreateDatabaseIndexesSteps

Skips_Never(st, registry) == FALSE

\* The registry checks: createIndex returns at once when the key is
\* registered, dropIndex when it is not.
Skips(st, registry) ==
    \/ st.reg # NoName /\ st.reg \in registry
    \/ st.unreg # NoName /\ st.unreg \notin registry

\* The first step from i on that sends a statement.
RECURSIVE NextLive(_, _, _)
NextLive(prog, i, registry) ==
    IF i > Len(prog) THEN i
    ELSE IF Skips(prog[i], registry) THEN NextLive(prog, i + 1, registry)
    ELSE i

\* The operation runs from step i on, with s sessions open: it returns when
\* no step is left, else it calls executeQuery for the next one.
RunFrom(c, op, arg, i, registry, s) ==
    LET prog == Program(op, arg)
        j == NextLive(prog, i, registry)
    IN
    IF j > Len(prog)
    THEN /\ call' = [call EXCEPT ![c] = IdleCall]
         /\ sessions' = s
         /\ last' = [Outcome(op, "ok") EXCEPT
                        !.arg = arg, !.life = LifeState,
                        !.connected = Connected]
    ELSE Issue(c, op, j, arg, prog[j].stmt, NoKey, FALSE, Undefined, FALSE, s)

\* KuzuAdapter.createIndex(nodeLabel, propertyName)
CreateIndex(c, nodeLabel, propertyName) ==
    /\ kind = "kuzu"
    /\ call[c].pc = "idle"
    /\ RunFrom(c, "createIndex", IndexKey(nodeLabel, propertyName), 1,
               indexRegistry, sessions)
    /\ UNCHANGED <<envVars, cacheVars, indexRegistry, stored,
                   schemaDone>>
    /\ UNCHANGED <<adapterVars, backendVars, clockVars>>

\* KuzuAdapter.dropIndex(nodeLabel, propertyName)
DropIndex(c, nodeLabel, propertyName) ==
    /\ kind = "kuzu"
    /\ call[c].pc = "idle"
    /\ RunFrom(c, "dropIndex", IndexKey(nodeLabel, propertyName), 1,
               indexRegistry, sessions)
    /\ UNCHANGED <<envVars, cacheVars, indexRegistry, stored,
                   schemaDone>>
    /\ UNCHANGED <<adapterVars, backendVars, clockVars>>

\* KuzuAdapter.initializeFullSchema()
InitializeFullSchema(c) ==
    /\ kind = "kuzu"
    /\ call[c].pc = "idle"
    /\ RunFrom(c, "initializeFullSchema", NoName, 1, indexRegistry, sessions)
    /\ UNCHANGED <<envVars, cacheVars, indexRegistry, stored,
                   schemaDone>>
    /\ UNCHANGED <<adapterVars, backendVars, clockVars>>

\* Neo4jAdapter.initializeSchema()
InitializeSchema(c) ==
    /\ kind = "neo4j"
    /\ call[c].pc = "idle"
    /\ RunFrom(c, "initializeSchema", NoName, 1, indexRegistry, sessions)
    /\ UNCHANGED <<envVars, cacheVars, indexRegistry, stored,
                   schemaDone>>
    /\ UNCHANGED <<adapterVars, backendVars, clockVars>>

\* const requiredColumns = ['id', 'symbol', 'name', 'chromosome']
RequiredColumns == <<"id", "symbol", "name", "chromosome">>

\* csvContent.split('\n')[0].split(','): the fields of the first line.
FirstLine(csvContent) == IF Len(csvContent) = 0 THEN <<>> ELSE csvContent[1]

\* h.trim(): the field without the blanks around it.
Trim(h) == h.text

\* const headers = firstLine.split(',').map(h => h.trim())
Headers(csvContent) ==
    LET firstLine == FirstLine(csvContent) IN
    [i \in 1..Len(firstLine) |-> Trim(firstLine[i])]

Includes_Always(seq, x) == TRUE

\* headers.includes(col)
Includes(seq, x) == \E i \in 1..Len(seq) : seq[i] = x

\* KuzuAdapter.importGeneData(csvContent): the header row is validated, the
\* content is written to /genes.csv, COPY is sent, then ANALYZE STATISTICS.
ImportGeneData(c, csvContent) ==
    LET headers == Headers(csvContent) IN
    /\ kind = "kuzu"
    /\ call[c].pc = "idle"
    /\ IF ~(\A i \in 1..Len(RequiredColumns) :
                Includes(headers, RequiredColumns[i]))
       THEN \* throw new Error(`CSV missing required columns. Needs: ...`)
            /\ last' = [Outcome("importGeneData", "ValidationError") EXCEPT
                           !.arg = FirstLine(csvContent),
                           !.life = LifeState, !.connected = Connected,
                           !.cols = {RequiredColumns[i] :
                                        i \in 1..Len(RequiredColumns)}]
            /\ UNCHANGED <<call, sessions, fs>>
       ELSE /\ fs' = [p \in DOMAIN fs \cup {GenesCsvPath} |->
                        IF p = GenesCsvPath THEN csvContent ELSE fs[p]]
            /\ RunFrom(c, "importGeneData", FirstLine(csvContent), 1,
                       indexRegistry, sessions)
    /\ UNCHANGED <<envVars, cacheVars, indexRegistry, stored,
                   schemaDone, dbGenes, dbProps, dbSchema>>
    /\ UNCHANGED <<adapterVars, clockVars>>

\* The backend executes the statement of a step: the adapter updates its
\* registry and goes on with the steps that follow.
StepReplyOk(c) ==
    LET slot == call[c]
        st == Program(slot.op, slot.arg)[slot.step]
        registry == (indexRegistry \cup (IF st.reg = NoName THEN {}
                                         ELSE {st.reg}))
                        \ (IF st.unreg = NoName THEN {} ELSE {st.unreg})
    IN
    /\ slot.pc = "main"
    /\ slot.op \in ProgramOps
    /\ ~Rejects(slot.stmt)
    /\ dbGenes' = GenesAfter(slot.stmt)
    /\ dbProps' = PropsAfter(slot.stmt)
    /\ dbSchema' = SchemaAfter(slot.stmt)
    /\ indexRegistry' = registry
    /\ RunFrom(c, slot.op, slot.arg, slot.step + 1, registry, SessionsAfter)
    /\ schemaDone' = (schemaDone \/ (slot.op \in SchemaOps /\ last'.out = "ok"))
    /\ UNCHANGED <<envVars, cacheVars, stored, fs>>
    /\ UNCHANGED <<adapterVars, clockVars>>

(***************************************************************************)
(* KuzuAdapter.optimizeQuery.  A query text is the sequence of its words;  *)
(* a word is a tuple, a property access being <<variable, ".", property>>. *)
(***************************************************************************)
\* query.includes(word)
QueryIncludes(query, word) == \E i \in 1..Len(query) : query[i] = <<word>>

\* query.match(/\w+\.\w+/g) || []
PropertyMatches(query) ==
    {query[i] : i \in {j \in 1..Len(query) :
                          Len(query[j]) = 3 /\ query[j][2] = "."}}

\* The suggestions optimizeQuery has collected when it calls executeQuery.
Suggestions(query, registry) ==
    (IF QueryIncludes(query, "MATCH") /\ ~QueryIncludes(query, "WHERE")
     THEN {<<"Consider adding WHERE clauses to filter results early">>}
     ELSE {})
    \cup (IF ~QueryIncludes(query, "LIMIT")
          THEN {<<"Add LIMIT clause to prevent large result sets">>}
          ELSE {})
    \cup {<<"Consider creating an index on", m[1], m[3]>> :
            m \in {pm \in PropertyMatches(query) :
                      IndexKey(pm[1], pm[3]) \notin registry}}

\* return ['Error analyzing query']
ErrorSuggestions == {<<"Error analyzing query">>}

\* optimizeQuery(query) up to its await: the suggestions are collected and
\* executeQuery(`EXPLAIN ${query}`) is called; an error thrown by it at once
\* is caught.
OptimizeQuery(c, query) ==
    /\ kind = "kuzu"
    /\ call[c].pc = "idle"
    /\ IF conn # "open"
       THEN /\ last' = [Outcome("optimizeQuery", "ok") EXCEPT
                           !.arg = query, !.life = LifeState,
                           !.connected = Connected,
                           !.data = ErrorSuggestions]
            /\ UNCHANGED <<call, sessions>>
       ELSE Issue(c, "optimizeQuery", 0, query, Stmt("EXPLAIN", NoName, {}),
                  NoKey, FALSE, Undefined, FALSE, sessions)
    /\ UNCHANGED <<envVars, cacheVars, indexRegistry, stored, schemaDone>>
    /\ UNCHANGED <<adapterVars, backendVars, clockVars>>

\* The backend answers the EXPLAIN statement: return suggestions
OptimizeReplyOk(c) ==
    LET slot == call[c] IN
    /\ slot.pc = "main"
    /\ slot.op = "optimizeQuery"
    /\ call' = [call EXCEPT ![c] = IdleCall]
    /\ sessions' = SessionsAfter
    /\ last' = Done(slot, Suggestions(slot.arg, indexRegistry))
    /\ UNCHANGED <<envVars, cacheVars, indexRegistry, stored, schemaDone>>
    /\ UNCHANGED <<adapterVars, backendVars, clockVars>>

\* The backend fails the EXPLAIN statement: executeQuery rethrows, the catch
\* of optimizeQuery logs the error and returns ['Error analyzing query'].
OptimizeReplyError(c) ==
    LET slot == call[c] IN
    /\ slot.pc = "main"
    /\ slot.op = "optimizeQuery"
    /\ call' = [call EXCEPT ![c] = IdleCall]
    /\ sessions' = SessionsAfter
    /\ last' = [Done(slot, ErrorSuggestions) EXCEPT !.fault = TRUE]
    /\ UNCHANGED <<envVars, cacheVars, indexRegistry, stored, schemaDone>>
    /\ UNCHANGED <<adapterVars, backendVars, clockVars>>

(***************************************************************************)
(* SickleGraphService, the facade over the adapter.  With a KuzuAdapter it *)
(* is the class of eight query methods, with a Neo4jAdapter the class of   *)
(* five.  Its own initialization runs in the last caller slot, the facade  *)
(* calls of its users in the others.                                       *)
(***************************************************************************)
SvcCaller == MaxCallers

\* The methods that start with: if (!this.initialized) throw ...
GuardedReads ==
    {"searchGenes", "getGene", "findTrialsForVariant", "searchPapers",
     "searchPapersAdvanced", "getEntityCount"}

\* The query methods of the service class in use.
ServiceReads ==
    IF kind = "kuzu" THEN FacadeReads
    ELSE {"searchGenes", "getGene", "findTrialsForVariant", "searchPapers"}

FacadeMethods == FacadeReads \cup {"importGeneData"}

\* The service once the call it awaited in its slot has settled.
Failed(service) == [service EXCEPT !.pc = "failed"]

\* initializeDatabase(): this.dbAdapter = new ...Adapter(...), then
\* await this.dbAdapter.initialize()
SvcInitializeDatabase ==
    /\ svc.pc = "new"
    /\ InitializeBegin
    /\ svc' = [svc EXCEPT !.dbAdapter = "set",
                          !.pc = IF last'.out = "pending" THEN "initialize"
                                 ELSE "failed"]

\* initialize() of the adapter returns to initializeDatabase().
SvcInitializeOk ==
    /\ svc.pc = "initialize"
    /\ InitializeOk
    /\ svc' = [svc EXCEPT !.pc = "connected"]

\* initialize() of the adapter throws: initializeDatabase() rethrows.
SvcInitializeFail ==
    /\ svc.pc = "initialize"
    /\ InitializeFail
    /\ svc' = Failed(svc)

\* await this.dbAdapter.initializeFullSchema() / initializeSchema()
SvcInitializeSchema ==
    /\ svc.pc = "connected"
    /\ IF kind = "kuzu" THEN InitializeFullSchema(SvcCaller)
       ELSE InitializeSchema(SvcCaller)
    /\ svc' = IF last'.out = "pending" THEN [svc EXCEPT !.pc = "schema"]
              ELSE Failed(svc)

\* await this.createDatabaseIndexes()
SvcCreateDatabaseIndexes ==
    /\ kind = "kuzu"
    /\ svc.pc = "schemaDone"
    /\ call[SvcCaller].pc = "idle"
    /\ RunFrom(SvcCaller, "createDatabaseIndexes", NoName, 1, indexRegistry,
               sessions)
    /\ svc' = IF last'.out = "pending" THEN [svc EXCEPT !.pc = "indexes"]
              ELSE Failed(svc)
    /\ UNCHANGED <<envVars, cacheVars, indexRegistry, stored, schemaDone>>
    /\ UNCHANGED <<adapterVars, backendVars, clockVars>>

\* A statement of the initialization succeeds; after the last one of the
\* last stage: this.initialized = true.
SvcStepReplyOk ==
    /\ StepReplyOk(SvcCaller)
    /\ svc' = IF call'[SvcCaller].pc # "idle" THEN svc
              ELSE IF last'.out # "ok" THEN Failed(svc)
              ELSE IF kind = "kuzu" /\ svc.pc = "schema"
              THEN [svc EXCEPT !.pc = "schemaDone"]
              ELSE [svc EXCEPT !.pc = "done", !.initialized = TRUE]

\* A statement of the initialization fails: initializeDatabase() rethrows.
SvcReplyError ==
    /\ ExecReplyError(SvcCaller)
    /\ svc' = Failed(svc)

SvcStop_KeepsFlag ==
    /\ IF svc.dbAdapter = "set" THEN Close
       ELSE /\ last' = [Outcome("stop", "ok") EXCEPT !.adapter = FALSE]
            /\ UNCHANGED <<envVars, cacheVars, indexRegistry, call, sessions,
                           stored, schemaDone>>
            /\ UNCHANGED <<adapterVars, backendVars, clockVars>>
    /\ UNCHANGED svc

\* stop(): if (this.dbAdapter) await this.dbAdapter.close();
\* this.initialized = false
SvcStop ==
    /\ IF svc.dbAdapter = "set" THEN Close
       ELSE /\ last' = [Outcome("stop", "ok") EXCEPT !.adapter = FALSE]
            /\ UNCHANGED <<envVars, cacheVars, indexRegistry, call, sessions,
                           stored, schemaDone>>
            /\ UNCHANGED <<adapterVars, backendVars, clockVars>>
    /\ svc' = [svc EXCEPT !.initialized = FALSE]

\* stop() when close() of the adapter throws: the flag is not reset.
SvcStopFail ==
    /\ svc.dbAdapter = "set"
    /\ CloseFail
    /\ UNCHANGED svc

\* The outcome of a facade call that ended in the service itself.
ServiceOutcome(method, out) ==
    [Outcome(method, out) EXCEPT !.adapter = FALSE, !.life = LifeState,
                                 !.connected = Connected]

\* A query method of the facade: its guard, then one executeQuery call.
Facade(c, method) ==
    /\ call[c].pc = "idle"
    /\ method \in ServiceReads
    /\ IF /\ method \in GuardedReads
          /\ \/ ~svc.initialized
             \/ method = "searchGenes" /\ svc.dbAdapter = "undefined"
       THEN \* throw new Error('Service not initialized')
            /\ last' = ServiceOutcome(method, "ServiceNotInitialized")
            /\ UNCHANGED <<call, sessions>>
       ELSE IF svc.dbAdapter = "undefined"
       THEN \* this.dbAdapter.executeQuery on undefined: a TypeError
            /\ last' = ServiceOutcome(method, "TypeError")
            /\ UNCHANGED <<call, sessions>>
       ELSE Issue(c, method, 0, NoName, ReadStmt, NoKey, FALSE, Undefined,
                  FALSE, sessions)
    /\ UNCHANGED <<envVars, cacheVars, indexRegistry, stored, schemaDone,
                   svc>>
    /\ UNCHANGED <<adapterVars, backendVars, clockVars>>

\* importGeneData(csvData) of the facade: its guard, then importGeneData of
\* the adapter (a method Neo4jAdapter does not have).
FacadeImportGeneData(c, csvData) ==
    /\ call[c].pc = "idle"
    /\ IF ~svc.initialized \/ kind = "neo4j"
       THEN /\ last' = ServiceOutcome("importGeneData",
                                      IF ~svc.initialized
                                      THEN "ServiceNotInitialized"
                                      ELSE "TypeError")
            /\ UNCHANGED <<envVars, cacheVars, indexRegistry, call, sessions,
                           stored, schemaDone>>
            /\ UNCHANGED <<adapterVars, backendVars, clockVars>>
       ELSE ImportGeneData(c, csvData)
    /\ UNCHANGED svc

(***************************************************************************)
(* Neo4jAdapter.convertNeo4jTypes.  A value is a record: its type, the     *)
(* number of an Integer or of an identity, its properties or fields as a   *)
(* sequence of <<key, value>> in insertion order, and its items.           *)
(***************************************************************************)
Val(type, n, props, items) ==
    [type |-> type, n |-> n, props |-> props, items |-> items]

StringVal == Val("string", 0, <<>>, <<>>)
NumberVal(n) == Val("number", n, <<>>, <<>>)
IntegerVal(n) == Val("Integer", n, <<>>, <<>>)
NodeVal(identity, props) == Val("Node", identity, props, <<>>)
\* A relationship from the node with its own identity to the next one.
RelationshipVal(identity, props) == Val("Relationship", identity, props, <<>>)
ArrayVal(items) == Val("Array", 0, <<>>, items)
ObjectVal(props) == Val("Object", 0, props, <<>>)

\* The types of the values the driver wraps.
WrapperTypes == {"Integer", "Node", "Relationship"}

\* { ...properties, key: value }: the key keeps the place it has in the
\* properties, or is added last.
WithField(props, key, value) ==
    IF \E i \in 1..Len(props) : props[i][1] = key
    THEN [i \in 1..Len(props) |->
            IF props[i][1] = key THEN <<key, value>> ELSE props[i]]
    ELSE Append(props, <<key, value>>)

\* identity.toString(), start.toString(), end.toString()
IdText(n) == Val("string", n, <<>>, <<>>)

RECURSIVE ConvertNeo4jTypes(_)
ConvertNeo4jTypes(value) ==
    IF value.type = "Integer" THEN NumberVal(value.n)
    ELSE IF value.type = "Node"
    THEN ObjectVal(WithField(value.props, "id", IdText(value.n)))
    ELSE IF value.type = "Relationship"
    THEN ObjectVal(WithField(WithField(WithField(value.props,
                        "id", IdText(value.n)),
                        "startNodeId", IdText(value.n)),
                        "endNodeId", IdText(value.n + 1)))
    ELSE IF value.type = "Array"
    THEN ArrayVal([i \in 1..Len(value.items) |->
                      ConvertNeo4jTypes(value.items[i])])
    ELSE value

\* data = result.records.map(...): a field of a record is converted.
ConvertCall ==
    /\ last.op = "convertNeo4jTypes"
    /\ last.out = "pending"
    /\ last' = [last EXCEPT !.out = "ok",
                            !.data = ConvertNeo4jTypes(last.arg)]
    /\ UNCHANGED <<envVars, cacheVars, indexRegistry, call, sessions, stored,
                   schemaDone, svc>>
    /\ UNCHANGED <<adapterVars, backendVars, clockVars>>

(***************************************************************************)
(* The searches: the limit and the offset of the statement that is sent.   *)
(***************************************************************************)
\* limit: z.number().min(1).max(100).default(10) of GeneQuerySchema, a schema
\* no search parses its query with.
MinLimit == 1
MaxLimit == 100

\* limit = 10 and offset = 0: the default of a parameter or of a destructured
\* field, taken when the value is undefined.
DefaultLimit == 10
DefaultOffset == 0

DefaultTo(value, default) == IF value = Undefined THEN default ELSE value

\* The decimal digits of a text and their values.
DigitChars == {"0", "1", "2", "3", "4", "5", "6", "7", "8", "9"}

DigitValue(ch) ==
    CASE ch = "0" -> 0 [] ch = "1" -> 1 [] ch = "2" -> 2 [] ch = "3" -> 3
      [] ch = "4" -> 4 [] ch = "5" -> 5 [] ch = "6" -> 6 [] ch = "7" -> 7
      [] ch = "8" -> 8 [] ch = "9" -> 9

\* The value of the longest prefix of digits of text from position i on,
\* acc being the value of the digits before i.
RECURSIVE DigitsFrom(_, _, _)
DigitsFrom(text, i, acc) ==
    IF i > Len(text) \/ text[i] \notin DigitChars THEN acc
    ELSE DigitsFrom(text, i + 1, 10 * acc + DigitValue(text[i]))

\* parseInt(text): an optional sign, then the leading digits; NaN when there
\* is no digit (and for the undefined of an absent query parameter, <<>>).
ParseInt(text) ==
    LET signed == Len(text) > 0 /\ text[1] \in {"-", "+"}
        first == IF signed THEN 2 ELSE 1
        magnitude == DigitsFrom(text, first, 0)
    IN IF first > Len(text) \/ text[first] \notin DigitChars
       THEN [nan |-> TRUE, value |-> 0]
       ELSE [nan |-> FALSE,
             value |-> IF signed /\ text[1] = "-" THEN 0 - magnitude
                       ELSE magnitude]

\* parseInt(req.query.limit as string) || 10
RouteLimit(text) ==
    LET parsed == ParseInt(text)
    IN IF parsed.nan \/ parsed.value = 0 THEN DefaultLimit ELSE parsed.value

\* searchGenes(query, limit = 10) and searchPapers(query, limit = 10) of the
\* service: the guard, then executeQuery(searchQuery, {query, limit}).
SearchByText(c, method, limit) ==
    /\ call[c].pc = "idle"
    /\ method \in {"searchGenes", "searchPapers"}
    /\ IF ~svc.initialized \/ svc.dbAdapter = "undefined"
       THEN /\ last' = ServiceOutcome(method, "ServiceNotInitialized")
            /\ UNCHANGED <<call, sessions>>
       ELSE Issue(c, method, 0, [limit |-> DefaultTo(limit, DefaultLimit)],
                  ReadStmt, NoKey, FALSE, Undefined, FALSE, sessions)
    /\ UNCHANGED <<envVars, cacheVars, indexRegistry, stored, schemaDone,
                   svc>>
    /\ UNCHANGED <<adapterVars, backendVars, clockVars>>

\* searchGenesAdvanced(query) and searchPapersAdvanced(query) of the service
\* over KuzuAdapter: executeQuery(searchQuery, {...query, limit, offset}).
SearchAdvanced(c, method, query) ==
    /\ call[c].pc = "idle"
    /\ kind = "kuzu"
    /\ method \in {"searchGenesAdvanced", "searchPapersAdvanced"}
    /\ IF method \in GuardedReads /\ ~svc.initialized
       THEN /\ last' = ServiceOutcome(method, "ServiceNotInitialized")
            /\ UNCHANGED <<call, sessions>>
       ELSE IF svc.dbAdapter = "undefined"
       THEN /\ last' = ServiceOutcome(method, "TypeError")
            /\ UNCHANGED <<call, sessions>>
       ELSE Issue(c, method, 0,
                  [limit |-> DefaultTo(query.limit, DefaultLimit),
                   offset |-> DefaultTo(query.offset, DefaultOffset)],
                  ReadStmt, NoKey, FALSE, Undefined, FALSE, sessions)
    /\ UNCHANGED <<envVars, cacheVars, indexRegistry, stored, schemaDone,
                   svc>>
    /\ UNCHANGED <<adapterVars, backendVars, clockVars>>

\* Neo4jAdapter.getGenes(query) and getResearchPapers(query):
\* params = {limit, offset} and executeQuery(queryStr, params).
AdapterSearch(c, method, query) ==
    /\ call[c].pc = "idle"
    /\ kind = "neo4j"
    /\ method \in {"getGenes", "getResearchPapers"}
    /\ Issue(c, method, 0,
             [limit |-> DefaultTo(query.limit, DefaultLimit),
              offset |-> DefaultTo(query.offset, DefaultOffset)],
             ReadStmt, NoKey, FALSE, Undefined, FALSE, sessions)
    /\ UNCHANGED <<envVars, cacheVars, indexRegistry, stored, schemaDone,
                   svc>>
    /\ UNCHANGED <<adapterVars, backendVars, clockVars>>

\* GET /genes?q=...&limit=...: service.searchGenes(query, limit)
GetGenesRoute(c, limitText) ==
    LET limit == RouteLimit(limitText) IN
    /\ call[c].pc = "idle"
    /\ SearchByText(c, "searchGenes", limit)

(***************************************************************************)
(* validateEnv: the settings of the runtime are parsed with envSchema and  *)
(* the issues of a ZodError are written into one error message.  A setting *)
(* is known by the type of its value.                                      *)
(***************************************************************************)
\* envSchema: the fields in their order, each with the type it must have;
\* every field has a default or is optional, so undefined is accepted.
EnvSchema ==
    << <<"NEO4J_URI", "string">>, <<"NEO4J_USER", "string">>,
       <<"NEO4J_PASSWORD", "string">>,
       <<"KNOWLEDGE_GRAPH_CACHE_TTL", "number">>,
       <<"NCBI_API_KEY", "string">>, <<"NCBI_BASE_URL", "string">>,
       <<"KUZU_DB_PATH", "string">> >>

EnvFields == {EnvSchema[i][1] : i \in 1..Len(EnvSchema)}

\* envSchema.parse(env): the issues, one for each field whose value has not
\* the type of the field, in the order of the schema.
RECURSIVE Issues(_, _, _)
Issues(schema, env, i) ==
    IF i > Len(schema) THEN <<>>
    ELSE LET field == schema[i][1]
             expected == schema[i][2]
         IN (IF env[field] \in {"undefined", expected} THEN <<>>
             ELSE << [path |-> <<field>>,
                      message |-> <<"Expected", expected, "received",
                                    env[field]>>] >>)
            \o Issues(schema, env, i + 1)

FormatIssues_FirstOnly(issues) ==
    IF issues = <<>> THEN <<>>
    ELSE << <<issues[1].path, ":", issues[1].message>> >>

\* error.issues.map(issue => `${issue.path.join('.')}: ${issue.message}`):
\* the lines of the message that join('\n') puts together.
FormatIssues(issues) ==
    [i \in 1..Len(issues) |-> <<issues[i].path, ":", issues[i].message>>]

\* validateEnv(runtime): the parsed settings, or the Error whose message
\* holds the lines of the issues.
ValidateEnv ==
    LET issues == Issues(EnvSchema, last.arg, 1) IN
    /\ last.op = "validateEnv"
    /\ last.out = "pending"
    /\ last' = IF issues = <<>>
               THEN [last EXCEPT !.out = "ok"]
               ELSE [last EXCEPT !.out = "InvalidEnvironment",
                                 !.data = FormatIssues(issues)]
    /\ UNCHANGED <<envVars, cacheVars, indexRegistry, call, sessions, stored,
                   schemaDone, svc>>
    /\ UNCHANGED <<adapterVars, backendVars, clockVars>>

(***************************************************************************)
(* NCBIService.searchGenes, searchPubMed and searchClinVar over a          *)
(* KuzuAdapter.  The call is at step 1 while it reads the local store      *)
(* first, at 2 and 3 while it awaits the search and the details of the     *)
(* upstream API, at 4 while it writes the details to the store, and at 5   *)
(* while its catch block reads the store.  dbGenes stands for the records  *)
(* of the store that match the query.                                      *)
(***************************************************************************)
NcbiSearches == {"ncbi.searchGenes", "ncbi.searchPubMed", "ncbi.searchClinVar"}

\* The call awaits a request of the upstream API.
AwaitApi(c, op, step, arg) ==
    /\ call' = [call EXCEPT ![c] =
                  [IdleCall EXCEPT !.pc = "api", !.op = op, !.step = step,
                                   !.arg = arg, !.life = LifeState]]
    /\ sessions' = sessions
    /\ last' = [Outcome(op, "pending") EXCEPT
                   !.arg = arg, !.life = LifeState, !.connected = Connected]

\* The call reads the store: getCachedGenes, getCachedPapers,
\* getCachedVariants, each one executeQuery call.
ReadStore(c, op, step, arg) ==
    Issue(c, op, step, arg, ReadStmt, NoKey, FALSE, Undefined, FALSE,
          sessions)

\* search(query, {cacheFirst, forceUpdate}) up to its first await.
NcbiSearch(c, op, options) ==
    LET arg == [cacheFirst |-> options.cacheFirst,
                forceUpdate |-> options.forceUpdate, failed |-> "none"]
    IN
    /\ kind = "kuzu"
    /\ conn = "open"
    /\ call[c].pc = "idle"
    /\ op \in NcbiSearches
    /\ IF options.cacheFirst /\ ~options.forceUpdate
       THEN ReadStore(c, op, 1, arg)
       ELSE AwaitApi(c, op, 2, arg)
    /\ UNCHANGED <<envVars, cacheVars, indexRegistry, stored, schemaDone,
                   svc>>
    /\ UNCHANGED <<adapterVars, backendVars, clockVars>>

\* The store answers a read of the call: at step 1 the records are returned
\* when there are some, else the API is asked; at step 5 the records are
\* returned when there are some, else the normalized error is thrown.
NcbiStoreReply(c) ==
    LET slot == call[c] IN
    /\ slot.op \in NcbiSearches
    /\ slot.pc = "main"
    /\ slot.step \in {1, 5}
    /\ IF dbGenes # {}
       THEN /\ call' = [call EXCEPT ![c] = IdleCall]
            /\ sessions' = sessions
            /\ last' = Done(slot, dbGenes)
       ELSE IF slot.step = 1
       THEN AwaitApi(c, slot.op, 2, slot.arg)
       ELSE /\ call' = [call EXCEPT ![c] = IdleCall]
            /\ sessions' = sessions
            /\ last' = [Done(slot, NoData) EXCEPT !.out = "UpstreamError"]
    /\ UNCHANGED <<envVars, cacheVars, indexRegistry, stored, schemaDone,
                   svc>>
    /\ UNCHANGED <<adapterVars, backendVars, clockVars>>

\* The API answers: the search with its id list (an empty list is returned
\* as it is), the details with the records, which are written to the store
\* by a MERGE whose properties injectParams wrote into the text.
NcbiApiReply(c, ids) ==
    LET slot == call[c] IN
    /\ slot.op \in NcbiSearches
    /\ slot.pc = "api"
    /\ IF slot.step = 2
       THEN IF ids = {}
            THEN /\ call' = [call EXCEPT ![c] = IdleCall]
                 /\ sessions' = sessions
                 /\ last' = Done(slot, {})
            ELSE AwaitApi(c, slot.op, 3, slot.arg)
       ELSE /\ ids # {}
            /\ Issue(c, slot.op, 4, slot.arg, Stmt("MERGE", ObjectText, ids),
                     NoKey, FALSE, Undefined, FALSE, sessions)
    /\ UNCHANGED <<envVars, cacheVars, indexRegistry, stored, schemaDone,
                   svc>>
    /\ UNCHANGED <<adapterVars, backendVars, clockVars>>

\* catch (error): with cacheFirst the store is read, else the normalized
\* error is thrown.
Catch(c, slot, failed) ==
    LET arg == [slot.arg EXCEPT !.failed = failed] IN
    IF slot.arg.cacheFirst
    THEN ReadStore(c, slot.op, 5, arg)
    ELSE /\ call' = [call EXCEPT ![c] = IdleCall]
         /\ sessions' = sessions
         /\ last' = [Done([slot EXCEPT !.arg = arg], NoData) EXCEPT
                        !.out = "UpstreamError"]

\* A request of the upstream API fails.
NcbiApiFail(c) ==
    LET slot == call[c] IN
    /\ slot.op \in NcbiSearches
    /\ slot.pc = "api"
    /\ Catch(c, slot, "api")
    /\ UNCHANGED <<envVars, cacheVars, indexRegistry, stored, schemaDone,
                   svc>>
    /\ UNCHANGED <<adapterVars, backendVars, clockVars>>

\* The store settles the write of the details: it is rejected or fails, or
\* the details are stored and returned.
NcbiWriteReply(c, fails) ==
    LET slot == call[c] IN
    /\ slot.op \in NcbiSearches
    /\ slot.pc = "main"
    /\ slot.step = 4
    /\ IF fails \/ Rejects(slot.stmt)
       THEN /\ Catch(c, slot, "store")
            /\ UNCHANGED <<dbGenes, dbProps>>
       ELSE /\ dbGenes' = GenesAfter(slot.stmt)
            /\ dbProps' = PropsAfter(slot.stmt)
            /\ call' = [call EXCEPT ![c] = IdleCall]
            /\ sessions' = sessions
            /\ last' = Done(slot, slot.stmt.ids)
    /\ UNCHANGED <<envVars, cacheVars, indexRegistry, stored, schemaDone,
                   svc, dbSchema, fs>>
    /\ UNCHANGED <<adapterVars, clockVars>>

\* The store fails a read of the call: at step 1 the catch block runs, at
\* step 5 the error of the store leaves the catch block.
NcbiStoreFail(c) ==
    LET slot == call[c] IN
    /\ slot.op \in NcbiSearches
    /\ slot.pc = "main"
    /\ slot.step \in {1, 5}
    /\ IF slot.step = 1
       THEN Catch(c, slot, "store")
       ELSE /\ call' = [call EXCEPT ![c] = IdleCall]
            /\ sessions' = sessions
            /\ last' = [Done(slot, NoData) EXCEPT !.out = "BackendError",
                                                  !.fault = TRUE]
    /\ UNCHANGED <<envVars, cacheVars, indexRegistry, stored, schemaDone,
                   svc>>
    /\ UNCHANGED <<adapterVars, backendVars, clockVars>>

(***************************************************************************)
(* GET /genes/:id.  The handler asks the runtime for the service, awaits   *)
(* service?.getGene(id) and answers with a status: the outcome of the      *)
(* handler is the status, its data the body.                               *)
(***************************************************************************)
GetGeneOp == "GET /genes/:id"

\* The answer of the handler.
Response(slot, status, body, threw) ==
    [Done(slot, body) EXCEPT !.out = status, !.fault = threw]

\* The handler up to its await: service is undefined when the runtime has
\* no such service, and then service?.getGene(...) is undefined; getGene
\* throws when the service is not initialized, else it calls executeQuery.
GetGeneRoute(c, service, id) ==
    LET arg == [id |-> id, service |-> service]
        slot == [IdleCall EXCEPT !.op = GetGeneOp, !.arg = arg,
                                 !.life = LifeState]
    IN
    /\ call[c].pc = "idle"
    /\ IF service = "undefined"
       THEN /\ last' = Response(slot, "404", "Gene not found", FALSE)
            /\ UNCHANGED <<call, sessions>>
       ELSE IF ~svc.initialized
       THEN /\ last' = Response(slot, "500", "Service not initialized", TRUE)
            /\ UNCHANGED <<call, sessions>>
       ELSE Issue(c, GetGeneOp, 0, arg, Stmt("MATCH", NoName, {id}), NoKey,
                  FALSE, Undefined, FALSE, sessions)
    /\ UNCHANGED <<envVars, cacheVars, indexRegistry, stored, schemaDone,
                   svc>>
    /\ UNCHANGED <<adapterVars, backendVars, clockVars>>

\* getGene returns result.data[0]: if (!gene) 404, else res.json(gene).
GetGeneReplyOk(c) ==
    LET slot == call[c]
        rows == dbGenes \cap slot.stmt.ids
    IN
    /\ slot.pc = "main"
    /\ slot.op = GetGeneOp
    /\ call' = [call EXCEPT ![c] = IdleCall]
    /\ sessions' = SessionsAfter
    /\ last' = IF rows = {}
               THEN Response(slot, "404", "Gene not found", FALSE)
               ELSE Response(slot, "200", rows, FALSE)
    /\ UNCHANGED <<envVars, cacheVars, indexRegistry, stored, schemaDone,
                   svc>>
    /\ UNCHANGED <<adapterVars, backendVars, clockVars>>

\* getGene throws the error of executeQuery: 500 with its message.
GetGeneReplyError(c) ==
    LET slot == call[c] IN
    /\ slot.pc = "main"
    /\ slot.op = GetGeneOp
    /\ call' = [call EXCEPT ![c] = IdleCall]
    /\ sessions' = SessionsAfter
    /\ last' = Response(slot, "500", "BackendError", TRUE)
    /\ UNCHANGED <<envVars, cacheVars, indexRegistry, stored, schemaDone,
                   svc>>
    /\ UNCHANGED <<adapterVars, backendVars, clockVars>>

(***************************************************************************)
(* KnowledgeManager: loadCriticalGenes, loadActiveTrials and batchAddPapers *)
(* run one task for each item under a Semaphore of MAX_CONCURRENT_UPLOADS   *)
(* permits.  The Semaphore is the one of @elizaos/core: acquire takes a     *)
(* permit or queues the caller, release returns the permit and hands it to  *)
(* the first caller of the queue.  A task is "waiting" in the queue,        *)
(* "acquired" between its acquire and its release, then "done" or "failed". *)
(***************************************************************************)
MAX_CONCURRENT_UPLOADS == 5

BatchOps == {"loadCriticalGenes", "loadActiveTrials", "batchAddPapers"}

\* const CRITICAL_GENES = ['HBB', 'HBA1', 'HBA2', 'BCL11A']
CRITICAL_GENES == <<"HBB", "HBA1", "HBA2", "BCL11A">>

\* new Semaphore(count), with no item task yet
NewBatch(op, count) ==
    [op |-> op, permits |-> count, waiting |-> <<>>, task |-> <<>>,
     released |-> <<>>, returned |-> FALSE]

\* await semaphore.acquire() of the next item task
Acquire(b) ==
    LET t == Len(b.task) + 1 IN
    IF b.permits > 0
    THEN [b EXCEPT !.permits = b.permits - 1,
                   !.task = Append(b.task, "acquired"),
                   !.released = Append(b.released, 0)]
    ELSE [b EXCEPT !.waiting = Append(b.waiting, t),
                   !.task = Append(b.task, "waiting"),
                   !.released = Append(b.released, 0)]

\* items.map(async (item) => { await semaphore.acquire(); ... }): every
\* item task runs up to its acquire, in the order of the items.
RECURSIVE AcquireAll(_, _)
AcquireAll(b, n) == IF n = 0 THEN b ELSE Acquire(AcquireAll(b, n - 1))

\* semaphore.release() by task t
Release(b, t) ==
    LET freed == [b EXCEPT !.permits = b.permits + 1,
                           !.released[t] = b.released[t] + 1]
    IN
    IF Len(freed.waiting) > 0 /\ freed.permits > 0
    THEN [freed EXCEPT !.permits = freed.permits - 1,
                       !.waiting = Tail(freed.waiting),
                       !.task[Head(freed.waiting)] = "acquired"]
    ELSE freed

Settled_NoReleaseOnFailure(b, t, ok) ==
    IF ok THEN Release([b EXCEPT !.task[t] = "done"], t)
    ELSE [b EXCEPT !.task[t] = "failed"]

\* try { the work of the item } (catch) finally { semaphore.release() }
Settled(b, t, ok) ==
    Release([b EXCEPT !.task[t] = IF ok THEN "done" ELSE "failed"], t)

\* No task of the batch is waiting or between acquire and release.
AllSettled(b) ==
    \A t \in 1..Len(b.task) : b.task[t] \in {"done", "failed"}

\* One of the three methods is called with n items.
BatchStart(op, n) ==
    /\ km.op = "none"
    /\ op \in BatchOps
    /\ op = "loadCriticalGenes" => n = Len(CRITICAL_GENES)
    /\ km' = AcquireAll(NewBatch(op, MAX_CONCURRENT_UPLOADS), n)
    /\ last' = [Outcome(op, "pending") EXCEPT !.arg = n, !.adapter = FALSE]
    /\ UNCHANGED <<kind, configOk, inj, svc, cacheVars, indexRegistry, call,
                   sessions, stored, schemaDone>>
    /\ UNCHANGED <<adapterVars, backendVars, clockVars>>

\* The work of an item task succeeds or fails; its finally block runs.
TaskSettles(t, ok) ==
    /\ km.op # "none"
    /\ t \in 1..Len(km.task)
    /\ km.task[t] = "acquired"
    /\ km' = Settled(km, t, ok)
    /\ UNCHANGED <<kind, configOk, inj, svc, cacheVars, indexRegistry, call,
                   sessions, stored, schemaDone, last>>
    /\ UNCHANGED <<adapterVars, backendVars, clockVars>>

\* await Promise.all(...) settles and the method returns: when every task
\* has settled, or, in loadActiveTrials, whose tasks do not catch, as soon
\* as one task has failed.
BatchReturns ==
    /\ km.op # "none"
    /\ ~km.returned
    /\ \/ AllSettled(km)
       \/ /\ km.op = "loadActiveTrials"
          /\ \E t \in 1..Len(km.task) : km.task[t] = "failed"
    /\ km' = [km EXCEPT !.returned = TRUE]
    /\ last' = [Outcome(km.op, "ok") EXCEPT !.arg = Len(km.task),
                                            !.adapter = FALSE]
    /\ UNCHANGED <<kind, configOk, inj, svc, cacheVars, indexRegistry, call,
                   sessions, stored, schemaDone>>
    /\ UNCHANGED <<adapterVars, backendVars, clockVars>>

\* The semaphore of a batch that has returned and has no task left is
\* garbage.
BatchEnds ==
    /\ km.op # "none"
    /\ km.returned
    /\ AllSettled(km)
    /\ km' = NoBatch
    /\ UNCHANGED <<kind, configOk, inj, svc, cacheVars, indexRegistry, call,
                   sessions, stored, schemaDone, last>>
    /\ UNCHANGED <<adapterVars, backendVars, clockVars>>

(***************************************************************************)
(* KuzuAdapter.injectParams: the parameters are written into the query     *)
(* text.  Texts are sequences of characters.                               *)
(***************************************************************************)
MaxValueLen == 3

DQ == "\""
BS == "\\"

\* \w of the regular expressions, over the characters of the inputs.
WordChars == {"a", "p", "q", "x"}

StringValue(chars) == [type |-> "string", chars |-> chars]
NumberValue(chars) == [type |-> "number", chars |-> chars]
NullValue == [type |-> "null", chars |-> <<>>]

\* value.replace(/"/g, '\\"'): a backslash is put before every double quote.
RECURSIVE EscapeQuotes(_)
EscapeQuotes(chars) ==
    IF chars = <<>> THEN <<>>
    ELSE (IF Head(chars) = DQ THEN <<BS, DQ>> ELSE <<Head(chars)>>)
         \o EscapeQuotes(Tail(chars))

\* const paramValue = typeof value === 'string' ? `"${...}"`
\*                  : value === null ? 'NULL' : value
ParamValue(value) ==
    CASE value.type = "string" -> <<DQ>> \o EscapeQuotes(value.chars) \o <<DQ>>
      [] value.type = "null" -> <<"N", "U", "L", "L">>
      [] OTHER -> value.chars

\* new RegExp(`\\$${key}\\b`) matches the text at position i.
MatchAt(text, i, key) ==
    LET n == Len(key) IN
    /\ i + n <= Len(text)
    /\ text[i] = "$"
    /\ SubSeq(text, i + 1, i + n) = key
    /\ key[n] \in WordChars
    /\ (i + n = Len(text) \/ text[i + n + 1] \notin WordChars)

\* String.prototype.replace with a replacement string: $$ stands for $,
\* $& for the matched text, $` for the text before the match and $' for the
\* text after it.
RECURSIVE Expand(_, _, _, _)
Expand(repl, matched, before, after) ==
    IF repl = <<>> THEN <<>>
    ELSE IF Head(repl) = "$" /\ Len(repl) >= 2
    THEN CASE repl[2] = "$" ->
                <<"$">> \o Expand(SubSeq(repl, 3, Len(repl)), matched, before,
                                  after)
           [] repl[2] = "&" ->
                matched \o Expand(SubSeq(repl, 3, Len(repl)), matched, before,
                                  after)
           [] repl[2] = "`" ->
                before \o Expand(SubSeq(repl, 3, Len(repl)), matched, before,
                                 after)
           [] repl[2] = "'" ->
                after \o Expand(SubSeq(repl, 3, Len(repl)), matched, before,
                                after)
           [] OTHER -> <<"$">> \o Expand(Tail(repl), matched, before, after)
    ELSE <<Head(repl)>> \o Expand(Tail(repl), matched, before, after)

\* text.replace(new RegExp(`\\$${key}\\b`, 'g'), repl), from position i on.
RECURSIVE ReplaceFrom(_, _, _, _)
ReplaceFrom(text, i, key, repl) ==
    IF i > Len(text) THEN <<>>
    ELSE IF MatchAt(text, i, key)
    THEN Expand(repl, SubSeq(text, i, i + Len(key)), SubSeq(text, 1, i - 1),
                SubSeq(text, i + Len(key) + 1, Len(text)))
         \o ReplaceFrom(text, i + Len(key) + 1, key, repl)
    ELSE <<text[i]>> \o ReplaceFrom(text, i + 1, key, repl)

\* One iteration of the loop over Object.entries(params).
InjectOne(finalQuery, entry) ==
    ReplaceFrom(finalQuery, 1, entry[1], ParamValue(entry[2]))

\* injectParams(query, params), the entries of params in insertion order.
RECURSIVE InjectParams(_, _)
InjectParams(query, params) ==
    IF params = <<>> THEN query
    ELSE InjectParams(InjectOne(query, Head(params)), Tail(params))

\* executeQuery enters injectParams: let finalQuery = query
InjectBegin ==
    /\ inj.pc = "call"
    /\ inj' = [inj EXCEPT !.pc = "loop", !.i = 1, !.finalQuery = inj.query]
    /\ UNCHANGED <<kind, configOk, conn, db, driver, cacheVars, indexRegistry,
                   now, ticks, call, initPc, sessions, dbGenes, dbProps, dbSchema,
                   fs, initState, wasClosed, stored, schemaDone, svc, km, last>>

\* The body of the loop for the next entry of params.
InjectEntry ==
    /\ inj.pc = "loop"
    /\ inj.i <= Len(inj.params)
    /\ inj' = [inj EXCEPT !.i = inj.i + 1,
                          !.finalQuery = InjectOne(inj.finalQuery,
                                                   inj.params[inj.i])]
    /\ UNCHANGED <<kind, configOk, conn, db, driver, cacheVars, indexRegistry,
                   now, ticks, call, initPc, sessions, dbGenes, dbProps, dbSchema,
                   fs, initState, wasClosed, stored, schemaDone, svc, km, last>>

\* return finalQuery; executeQuery hands it to this.conn.execute.
InjectReturn ==
    /\ inj.pc = "loop"
    /\ inj.i > Len(inj.params)
    /\ inj' = [inj EXCEPT !.pc = "sent"]
    /\ UNCHANGED <<kind, configOk, conn, db, driver, cacheVars, indexRegistry,
                   now, ticks, call, initPc, sessions, dbGenes, dbProps, dbSchema,
                   fs, initState, wasClosed, stored, schemaDone, svc, km, last>>

(***************************************************************************)
(* The inputs of the index and import operations.                          *)
(***************************************************************************)
IndexPairs == {<<"Gene", "symbol">>, <<"Patient", "age">>}

Field(text, pad) == [text |-> text, pad |-> pad]

HeaderRows ==
    {<<Field("id", FALSE), Field("symbol", TRUE), Field("chromosome", TRUE),
       Field("description", FALSE), Field("name", FALSE)>>,
     <<Field("id", FALSE), Field("symbol", FALSE), Field("name", TRUE)>>,
     <<Field("id", FALSE), Field("Symbol", FALSE), Field("description", FALSE),
       Field("chromosome", FALSE)>>}

\* A file is its lines; a data line is given by its first field, the id.
CsvInputs ==
    {<<>>}
    \cup {<<h>> : h \in HeaderRows}
    \cup {<<h, <<id>> >> : h \in HeaderRows, id \in GeneIds}

\* The query templates and the parameter objects given to executeQuery.
ValueChars == {"a", "q", DQ, BS, "$", "&", "'"}

Texts(n) == UNION {[1..k -> ValueChars] : k \in 0..n}

QueryTemplates ==
    {<<"x", "=", "$", "p">>,
     <<"$", "p", ",", "$", "q">>,
     <<"$", "p", "a", "=", "$", "p", ";">>}

SecondValues == {StringValue(<<"a">>), NumberValue(<<"1">>), NullValue}

ParamsInputs ==
    {<< <<<<"p">>, StringValue(v)>> >> : v \in Texts(MaxValueLen)}
    \cup {<< <<<<"p">>, StringValue(v)>>, <<<<"q">>, w>> >> :
            v \in Texts(MaxValueLen), w \in SecondValues}


\* The calls made on the cache: one query text with a parameter object, the
\* same object with its keys in the other order, and an object with another
\* value.
CacheQuery == <<"MATCH", "(g:Gene)", "WHERE", "$a", "$b", "RETURN", "g">>

CacheInputs ==
    {<<CacheQuery, << <<"a", "1">>, <<"b", "2">> >> >>,
     <<CacheQuery, << <<"b", "2">>, <<"a", "1">> >> >>}

\* The values a record of the driver holds, nested up to depth d.
MaxDepth == 2

RECURSIVE DriverValues(_)
DriverValues(d) ==
    IF d = 0 THEN {StringVal, IntegerVal(7)}
    ELSE LET inner == DriverValues(d - 1) IN
         inner
         \cup {ArrayVal(<<>>), ObjectVal(<<>>), NodeVal(1, <<>>),
               RelationshipVal(1, <<>>)}
         \cup {ArrayVal(<<v>>) : v \in inner}
         \cup {ArrayVal(<<StringVal, v>>) : v \in inner}
         \cup {ObjectVal(<< <<"count", v>> >>) : v \in inner}
         \cup {NodeVal(1, << <<"position", v>> >>) : v \in inner}
         \cup {RelationshipVal(1, << <<"since", v>> >>) : v \in inner}

ConvertInputs == DriverValues(MaxDepth)

\* The Gene records that are imported, and those that are upserted: a
\* record is its id and the properties it carries.
GeneRecords == [id : GeneIds, props : {"HBB"}]
GeneRevisions == [id : GeneIds, props : {"HBB", "HBB beta-globin"}]

\* The limits and offsets callers pass; Undefined is an omitted one.
LimitInputs == {Undefined, 0 - 5, 0, 1, 100, 101}
OffsetInputs == {Undefined, 0 - 3, 0, 7}
SearchQueries == [limit : LimitInputs, offset : OffsetInputs]

\* The limit parameter of a GET /genes request; <<>> is an absent one.
LimitTexts ==
    {<<>>, <<"5">>, <<"0">>, <<"-", "5">>, <<"1", "0", "1">>, <<"a", "b">>,
     <<"7", "x">>}

\* The query texts given to optimizeQuery.
OptimizeInputs ==
    {<< <<"MATCH">>, <<"(g:Gene)">>, <<"RETURN">>, <<"g", ".", "symbol">> >>,
     << <<"MATCH">>, <<"(g:Gene)">>, <<"WHERE">>, <<"Gene", ".", "symbol">>,
        <<"RETURN">>, <<"g">>, <<"LIMIT">> >>}

\* The cached queries of which entries are cleared, and the patterns.
ClearInputs == CacheInputs \cup {<< <<"RETURN", "1">>, <<>> >>}

Patterns ==
    {RegExp("MATCH", FALSE), RegExp("MATCH", TRUE), RegExp("RETURN", TRUE)}

\* The Gene records written while cached calls overlap.
RaceGeneIds == {1}
RaceGeneRecords == [id : RaceGeneIds, props : {"HBB"}]

\* The settings a runtime returns: each is left out, a string or a number.
EnvInputs == [EnvFields -> {"undefined", "string", "number"}]

\* The options of an NCBI search and the id lists the API answers with.
SearchOptions == [cacheFirst : BOOLEAN, forceUpdate : BOOLEAN]
ApiIdLists == {{}, {1}}

\* The callers whose calls overlap.
RaceCallers == {1, 2}

(***************************************************************************)
(* The adapter with its callers.                                           *)
(***************************************************************************)
Init ==
    /\ kind \in {"kuzu", "neo4j"}
    /\ configOk \in (IF kind = "neo4j" THEN BOOLEAN ELSE {TRUE})
    /\ conn = "undefined"
    /\ db = "undefined"
    /\ driver = "null"
    /\ queryCache = <<>>
    /\ cacheOrder = <<>>
    /\ indexRegistry = {}
    /\ now = 0
    /\ ticks = 0
    /\ call = [c \in Callers |-> IdleCall]
    /\ initPc = "idle"
    /\ sessions = 0
    /\ dbGenes = {}
    /\ dbProps = <<>>
    /\ dbSchema = {}
    /\ fs = <<>>
    /\ initState = "never"
    /\ wasClosed = FALSE
    /\ stored = <<>>
    /\ schemaDone = FALSE
    /\ inj = NoInjection
    /\ svc = NewService
    /\ km = NoBatch
    /\ last = Outcome("new", "ok")

Next ==
    \/ InitializeBegin /\ UNCHANGED svc
    \/ InitializeOk /\ UNCHANGED svc
    \/ InitializeFail /\ UNCHANGED svc
    \/ Close /\ UNCHANGED svc
    \/ CloseFail /\ UNCHANGED svc
    \/ Tick /\ UNCHANGED svc
    \/ \E c \in SeqCallers, qi \in QueryInputs, useCache \in BOOLEAN,
          ttlOpt \in CacheTTLOpts, explain \in BOOLEAN :
            ExecBegin(c, qi, useCache, ttlOpt, explain) /\ UNCHANGED svc
    \/ \E c \in SeqCallers : ExecReplyExplain(c) /\ UNCHANGED svc
    \/ \E c \in SeqCallers : ExecReplyOk(c) /\ UNCHANGED svc
    \/ \E c \in SeqCallers : ExecReplyError(c) /\ UNCHANGED svc
    \/ \E c \in SeqCallers, id \in GeneIds : AddNode(c, id) /\ UNCHANGED svc
    \/ \E c \in SeqCallers, geneData \in GeneRecords :
            ImportGeneFromAPI(c, geneData) /\ UNCHANGED svc

Spec == Init /\ [][Next]_vars

\* The adapter under its administrative operations.
NextAdmin ==
    \/ InitializeBegin /\ UNCHANGED svc
    \/ InitializeOk /\ UNCHANGED svc
    \/ InitializeFail /\ UNCHANGED svc
    \/ Close /\ UNCHANGED svc
    \/ \E c \in SeqCallers, ip \in IndexPairs :
            CreateIndex(c, ip[1], ip[2]) /\ UNCHANGED svc
    \/ \E c \in SeqCallers, ip \in IndexPairs :
            DropIndex(c, ip[1], ip[2]) /\ UNCHANGED svc
    \/ \E c \in SeqCallers : InitializeFullSchema(c) /\ UNCHANGED svc
    \/ \E c \in SeqCallers : InitializeSchema(c) /\ UNCHANGED svc
    \/ \E c \in SeqCallers, csv \in CsvInputs :
            ImportGeneData(c, csv) /\ UNCHANGED svc
    \/ \E c \in SeqCallers : StepReplyOk(c) /\ UNCHANGED svc
    \/ \E c \in SeqCallers : ExecReplyError(c) /\ UNCHANGED svc

SpecAdmin == Init /\ [][NextAdmin]_vars

\* executeQuery of a connected KuzuAdapter about to inject its parameters.
InitInject ==
    /\ kind = "kuzu"
    /\ configOk = TRUE
    /\ conn = "open"
    /\ db = "open"
    /\ driver = "null"
    /\ queryCache = <<>>
    /\ cacheOrder = <<>>
    /\ indexRegistry = {}
    /\ now = 0
    /\ ticks = 0
    /\ call = [c \in Callers |-> IdleCall]
    /\ initPc = "idle"
    /\ sessions = 0
    /\ dbGenes = {}
    /\ dbProps = <<>>
    /\ dbSchema = {}
    /\ fs = <<>>
    /\ initState = "ok"
    /\ wasClosed = FALSE
    /\ stored = <<>>
    /\ schemaDone = FALSE
    /\ svc = NewService
    /\ km = NoBatch
    /\ last = Outcome("new", "ok")
    /\ \E q \in QueryTemplates, ps \in ParamsInputs :
          inj = [pc |-> "call", query |-> q, params |-> ps, i |-> 0,
                 finalQuery |-> <<>>]

NextInject ==
    \/ InjectBegin
    \/ InjectEntry
    \/ InjectReturn

SpecInject == InitInject /\ [][NextInject]_vars

\* A connected adapter, its cache and two callers whose calls overlap.
InitCache ==
    /\ kind \in {"kuzu", "neo4j"}
    /\ configOk = TRUE
    /\ conn = IF kind = "kuzu" THEN "open" ELSE "undefined"
    /\ db = IF kind = "kuzu" THEN "open" ELSE "undefined"
    /\ driver = IF kind = "neo4j" THEN "open" ELSE "null"
    /\ queryCache = <<>>
    /\ cacheOrder = <<>>
    /\ indexRegistry = {}
    /\ now = 0
    /\ ticks = 0
    /\ call = [c \in Callers |-> IdleCall]
    /\ initPc = "idle"
    /\ sessions = 0
    /\ dbGenes = {}
    /\ dbProps = <<>>
    /\ dbSchema = {}
    /\ fs = <<>>
    /\ initState = "ok"
    /\ wasClosed = FALSE
    /\ stored = <<>>
    /\ schemaDone = FALSE
    /\ inj = NoInjection
    /\ svc = NewService
    /\ km = NoBatch
    /\ last = Outcome("initialize", "ok")

NextCache ==
    \/ Tick /\ UNCHANGED svc
    \/ \E c \in RaceCallers, qi \in CacheInputs, useCache \in BOOLEAN :
            ExecBegin(c, qi, useCache, Undefined, FALSE) /\ UNCHANGED svc
    \/ \E c \in RaceCallers : ExecReplyOk(c) /\ UNCHANGED svc
    \/ \E c \in RaceCallers : ExecReplyError(c) /\ UNCHANGED svc
    \/ \E c \in RaceCallers, id \in RaceGeneIds :
            AddNode(c, id) /\ UNCHANGED svc
    \/ \E c \in RaceCallers, geneData \in RaceGeneRecords :
            ImportGeneFromAPI(c, geneData) /\ UNCHANGED svc

SpecCache == InitCache /\ [][NextCache]_vars

\* A connected KuzuAdapter.
InitOptimize == InitCache /\ kind = "kuzu"

\* A connected KuzuAdapter, its indexes and optimizeQuery.
NextOptimize ==
    \/ Close /\ UNCHANGED svc
    \/ \E c \in SeqCallers, q \in OptimizeInputs :
            OptimizeQuery(c, q) /\ UNCHANGED svc
    \/ \E c \in SeqCallers : OptimizeReplyOk(c) /\ UNCHANGED svc
    \/ \E c \in SeqCallers : OptimizeReplyError(c) /\ UNCHANGED svc
    \/ \E c \in SeqCallers, ip \in IndexPairs :
            CreateIndex(c, ip[1], ip[2]) /\ UNCHANGED svc
    \/ \E c \in SeqCallers, ip \in IndexPairs :
            DropIndex(c, ip[1], ip[2]) /\ UNCHANGED svc
    \/ \E c \in SeqCallers : StepReplyOk(c) /\ UNCHANGED svc
    \/ \E c \in SeqCallers : ExecReplyError(c) /\ UNCHANGED svc

SpecOptimize == InitOptimize /\ [][NextOptimize]_vars

\* A connected Neo4jAdapter that converts a value of a record.
InitConvert ==
    /\ kind = "neo4j"
    /\ configOk = TRUE
    /\ conn = "undefined"
    /\ db = "undefined"
    /\ driver = "open"
    /\ queryCache = <<>>
    /\ cacheOrder = <<>>
    /\ indexRegistry = {}
    /\ now = 0
    /\ ticks = 0
    /\ call = [c \in Callers |-> IdleCall]
    /\ initPc = "idle"
    /\ sessions = 0
    /\ dbGenes = {}
    /\ dbProps = <<>>
    /\ dbSchema = {}
    /\ fs = <<>>
    /\ initState = "ok"
    /\ wasClosed = FALSE
    /\ stored = <<>>
    /\ schemaDone = FALSE
    /\ inj = NoInjection
    /\ svc = NewService
    /\ km = NoBatch
    /\ \E value \in ConvertInputs :
          last = [Outcome("convertNeo4jTypes", "pending") EXCEPT
                     !.arg = value, !.life = "Ready", !.connected = TRUE]

NextConvert == ConvertCall

SpecConvert == InitConvert /\ [][NextConvert]_vars

\* A connected KuzuAdapter, its cached queries and clearQueryCache.
InitClear == InitCache /\ kind = "kuzu"

NextClear ==
    \/ Tick /\ UNCHANGED svc
    \/ \E c \in SeqCallers, qi \in ClearInputs :
            ExecBegin(c, qi, TRUE, Undefined, FALSE) /\ UNCHANGED svc
    \/ \E c \in SeqCallers : ExecReplyOk(c) /\ UNCHANGED svc
    \/ \E c \in SeqCallers : ExecReplyError(c) /\ UNCHANGED svc
    \/ \E pattern \in Patterns \cup {NoPattern} : ClearQueryCache(pattern)

SpecClear == InitClear /\ [][NextClear]_vars

\* A connected adapter and the upserts of Gene records.
NextUpsert ==
    \/ Tick /\ UNCHANGED svc
    \/ \E c \in RaceCallers, geneData \in GeneRevisions :
            ImportGeneFromAPI(c, geneData) /\ UNCHANGED svc
    \/ \E c \in RaceCallers, geneData \in GeneRevisions :
            CacheGenes(c, geneData) /\ UNCHANGED svc
    \/ \E c \in RaceCallers, id \in GeneIds : AddNode(c, id) /\ UNCHANGED svc
    \/ \E c \in RaceCallers, qi \in QueryInputs :
            ExecBegin(c, qi, FALSE, Undefined, FALSE) /\ UNCHANGED svc
    \/ \E c \in RaceCallers : ExecReplyOk(c) /\ UNCHANGED svc
    \/ \E c \in RaceCallers : ExecReplyError(c) /\ UNCHANGED svc

SpecUpsert == InitCache /\ [][NextUpsert]_vars

\* A service whose initialization has completed over a connected adapter.
InitSearch ==
    /\ kind \in {"kuzu", "neo4j"}
    /\ configOk = TRUE
    /\ conn = IF kind = "kuzu" THEN "open" ELSE "undefined"
    /\ db = IF kind = "kuzu" THEN "open" ELSE "undefined"
    /\ driver = IF kind = "neo4j" THEN "open" ELSE "null"
    /\ queryCache = <<>>
    /\ cacheOrder = <<>>
    /\ indexRegistry = {}
    /\ now = 0
    /\ ticks = 0
    /\ call = [c \in Callers |-> IdleCall]
    /\ initPc = "idle"
    /\ sessions = 0
    /\ dbGenes = {}
    /\ dbProps = <<>>
    /\ dbSchema = {}
    /\ fs = <<>>
    /\ initState = "ok"
    /\ wasClosed = FALSE
    /\ stored = <<>>
    /\ schemaDone = TRUE
    /\ inj = NoInjection
    /\ svc = [pc |-> "done", dbAdapter |-> "set", initialized |-> TRUE]
    /\ km = NoBatch
    /\ last = Outcome("initialize", "ok")

\* The searches of the service, of the adapter and of the route.
NextSearch ==
    \/ \E c \in SeqCallers, method \in {"searchGenes", "searchPapers"},
          limit \in LimitInputs : SearchByText(c, method, limit)
    \/ \E c \in SeqCallers,
          method \in {"searchGenesAdvanced", "searchPapersAdvanced"},
          query \in SearchQueries : SearchAdvanced(c, method, query)
    \/ \E c \in SeqCallers, method \in {"getGenes", "getResearchPapers"},
          query \in SearchQueries : AdapterSearch(c, method, query)
    \/ \E c \in SeqCallers, text \in LimitTexts : GetGenesRoute(c, text)
    \/ \E c \in SeqCallers : ExecReplyOk(c) /\ UNCHANGED svc
    \/ \E c \in SeqCallers : ExecReplyError(c) /\ UNCHANGED svc
    \/ SvcStop

SpecSearch == InitSearch /\ [][NextSearch]_vars

\* No adapter is connected yet; the operation of the record is to run.
Before(pending) ==
    /\ kind \in {"kuzu", "neo4j"}
    /\ configOk = TRUE
    /\ conn = "undefined"
    /\ db = "undefined"
    /\ driver = "null"
    /\ queryCache = <<>>
    /\ cacheOrder = <<>>
    /\ indexRegistry = {}
    /\ now = 0
    /\ ticks = 0
    /\ call = [c \in Callers |-> IdleCall]
    /\ initPc = "idle"
    /\ sessions = 0
    /\ dbGenes = {}
    /\ dbProps = <<>>
    /\ dbSchema = {}
    /\ fs = <<>>
    /\ initState = "never"
    /\ wasClosed = FALSE
    /\ stored = <<>>
    /\ schemaDone = FALSE
    /\ inj = NoInjection
    /\ svc = NewService
    /\ km = NoBatch
    /\ last = pending

\* The settings of a runtime are validated.
InitValidate ==
    \E env \in EnvInputs :
        Before([Outcome("validateEnv", "pending") EXCEPT !.arg = env])

NextValidate == ValidateEnv

SpecValidate == InitValidate /\ [][NextValidate]_vars

\* The NCBI service over a connected KuzuAdapter: caller 1 searches while
\* caller 2 adds records to the store.
NextNcbi ==
    \/ \E op \in NcbiSearches, options \in SearchOptions :
            NcbiSearch(1, op, options)
    \/ NcbiStoreReply(1)
    \/ \E ids \in ApiIdLists : NcbiApiReply(1, ids)
    \/ NcbiApiFail(1)
    \/ \E fails \in BOOLEAN : NcbiWriteReply(1, fails)
    \/ NcbiStoreFail(1)
    \/ \E id \in RaceGeneIds : AddNode(2, id) /\ UNCHANGED svc
    \/ ExecReplyOk(2) /\ UNCHANGED svc

SpecNcbi == InitOptimize /\ [][NextNcbi]_vars

\* The route GET /genes/:id over an initialized service, with callers that
\* store genes and a service that is stopped.
NextRoute ==
    \/ \E c \in Callers, service \in {"undefined", "set"}, id \in GeneIds :
            GetGeneRoute(c, service, id)
    \/ \E c \in Callers : GetGeneReplyOk(c)
    \/ \E c \in Callers : GetGeneReplyError(c)
    \/ \E c \in Callers, geneData \in GeneRecords :
            ImportGeneFromAPI(c, geneData) /\ UNCHANGED svc
    \/ \E c \in Callers, id \in GeneIds : AddNode(c, id) /\ UNCHANGED svc
    \/ \E c \in Callers : ExecReplyOk(c) /\ UNCHANGED svc
    \/ SvcStop

SpecRoute == InitSearch /\ [][NextRoute]_vars

\* The KnowledgeManager running its batches one after the other.
NextKnowledge ==
    \/ \E op \in BatchOps, n \in 0..MaxItems : BatchStart(op, n)
    \/ \E t \in 1..MaxItems, ok \in BOOLEAN : TaskSettles(t, ok)
    \/ BatchReturns
    \/ BatchEnds

SpecKnowledge == InitOptimize /\ [][NextKnowledge]_vars

\* The work of an item task settles in the end, the event loop runs every
\* continuation that is ready, and a method that may return does.
SpecKnowledgeLive ==
    /\ SpecKnowledge
    /\ WF_vars(\E t \in 1..MaxItems, ok \in BOOLEAN : TaskSettles(t, ok))
    /\ WF_vars(BatchReturns)
    /\ WF_vars(BatchEnds)

\* The service over a Neo4jAdapter, services/sickle-graph-service.ts, with
\* the users of its facade.
InitNeo4jService == Init /\ kind = "neo4j"

NextNeo4jService ==
    \/ SvcInitializeDatabase
    \/ SvcInitializeOk
    \/ SvcInitializeFail
    \/ SvcInitializeSchema
    \/ SvcStepReplyOk
    \/ SvcReplyError
    \/ SvcStop
    \/ SvcStopFail
    \/ \E c \in SeqCallers, method \in FacadeReads : Facade(c, method)
    \/ \E c \in SeqCallers, csv \in CsvInputs : FacadeImportGeneData(c, csv)
    \/ \E c \in SeqCallers : ExecReplyOk(c) /\ UNCHANGED svc
    \/ \E c \in SeqCallers : ExecReplyError(c) /\ UNCHANGED svc

SpecNeo4jService == InitNeo4jService /\ [][NextNeo4jService]_vars

\* The service with the users of its facade.
NextService ==
    \/ SvcInitializeDatabase
    \/ SvcInitializeOk
    \/ SvcInitializeFail
    \/ SvcInitializeSchema
    \/ SvcCreateDatabaseIndexes
    \/ SvcStepReplyOk
    \/ SvcReplyError
    \/ SvcStop
    \/ SvcStopFail
    \/ \E c \in SeqCallers, method \in FacadeReads : Facade(c, method)
    \/ \E c \in SeqCallers, csv \in CsvInputs : FacadeImportGeneData(c, csv)
    \/ \E c \in SeqCallers : ExecReplyOk(c) /\ UNCHANGED svc
    \/ \E c \in SeqCallers : StepReplyOk(c) /\ UNCHANGED svc
    \/ \E c \in SeqCallers : ExecReplyError(c) /\ UNCHANGED svc

SpecService == Init /\ [][NextService]_vars

(***************************************************************************)
(* C1.  Two executeQuery calls with useCache=true and the same (query      *)
(* text, params), the second one started within the TTL after the first    *)
(* one completed, reach the backend once: the second call sends nothing    *)
(* and returns the result the first one stored.  A call started when the   *)
(* TTL has expired sends the statement to the backend again.               *)
(***************************************************************************)
C1_CachedCallWithinTTLSendsNothing ==
    last.op = "executeQuery" =>
        /\ last.prior = "fresh" =>
              /\ last.sent = 0
              /\ last.connected =>
                    /\ last.out = "ok"
                    /\ last.hit
                    /\ last.data = stored[last.key].data
        /\ (last.prior = "expired" /\ last.connected) =>
              /\ last.sent = 1
              /\ ~last.hit

\* A second call within the TTL was answered from the cache.
C1_Witness ==
    /\ last.op = "executeQuery"
    /\ last.prior = "fresh"
    /\ last.hit
    /\ last.age > 0

\* A call after the TTL expired was sent to the backend.
C1_WitnessExpired ==
    /\ last.op = "executeQuery"
    /\ last.prior = "expired"
    /\ last.sent = 1

(***************************************************************************)
(* C2.  executeQuery returns a stored entry only if, at the time of the    *)
(* call, now - storedAt < ttlSeconds * 1000: an entry whose age is equal   *)
(* to or greater than the TTL of the call is never returned.               *)
(***************************************************************************)
C2_HitOnlyIfFresh ==
    last.hit =>
        /\ last.useCache
        /\ last.age >= 0
        /\ last.age < last.ttl * MsPerSecond

\* An entry that is not new was returned, and it was younger than the TTL.
C2_Witness ==
    /\ last.hit
    /\ last.age > 0
    /\ last.ttl = 1

(***************************************************************************)
(* C3.  After a mutating adapter operation completed, a read with          *)
(* useCache=true within the TTL does not return the result cached before   *)
(* the write: what a cache hit returns is what the backend holds.          *)
(***************************************************************************)
C3_NoStaleReadAfterWrite ==
    (last.op = "executeQuery" /\ last.hit) => last.data = dbGenes

(***************************************************************************)
(* C4.  executeQuery is accepted only in adapter state Ready: in every     *)
(* other state (never initialized, initializing, failed, closed) it fails  *)
(* with the not-initialized error, sends nothing and returns no result,    *)
(* whatever the options and the cache hold.                                *)
(***************************************************************************)
C4_OnlyAcceptedWhenReady ==
    (last.op = "executeQuery" /\ last.life # "Ready") =>
        /\ last.out = "NotInitialized"
        /\ last.sent = 0
        /\ ~last.hit

(***************************************************************************)
(* C5.  Closed is terminal: once close() has released the connection of an *)
(* adapter instance, nothing brings the instance back to a state in which  *)
(* its statements reach the backend, and no executeQuery started after     *)
(* the close succeeds.                                                     *)
(***************************************************************************)
C5_ClosedIsTerminal ==
    wasClosed =>
        /\ ~Connected
        /\ ~(last.op = "executeQuery" /\ last.life = "Closed"
               /\ last.out = "ok")


(***************************************************************************)
(* C7.  importGeneData called with bulk text whose header row lacks a      *)
(* required column (id, symbol, name, chromosome) fails with a validation  *)
(* error whose message names the missing columns, and fails before any     *)
(* write: the virtual filesystem and the database are left as they were,   *)
(* no COPY and no statistics statement is sent, nothing is left in flight. *)
(***************************************************************************)
MissingColumns(firstLine) ==
    {col \in {"id", "symbol", "name", "chromosome"} :
        ~\E i \in 1..Len(firstLine) : firstLine[i].text = col}

C8_SchemaInitIdempotent ==
    (/\ last.op \in SchemaOps
     /\ schemaDone
     /\ last.out \notin {"pending", "TypeError", "NotInitialized"}
     /\ ~last.fault)
    => last.out = "ok"

(***************************************************************************)
(* C9.  KuzuAdapter.createIndex(label, property) for a pair present in the *)
(* index registry is a silent no-op: it returns without error, sends no    *)
(* statement and leaves the registry (and the backend) unchanged.  Hence   *)
(* the backend creates an index only for a pair that was not registered,   *)
(* and the pair is registered from then on: without a dropIndex, repeated  *)
(* createIndex calls for a pair make one successful CREATE INDEX.          *)
(***************************************************************************)
KnownIndexPairs ==
    IndexPairs \cup {<<"Gene", "id">>, <<"Variant", "id">>, <<"Patient", "id">>,
                     <<"ResearchPaper", "id">>, <<"Gene", "chromosome">>,
                     <<"Variant", "clinicalSignificance">>,
                     <<"ResearchPaper", "publicationDate">>}

C9_RegisteredCreateIndexIsNoOp ==
    [][/\ \A c \in SeqCallers :
            (/\ call[c].pc = "idle"
             /\ last'.op = "createIndex"
             /\ last'.arg \in indexRegistry)
            => /\ last'.out = "ok"
               /\ last'.sent = 0
               /\ indexRegistry' = indexRegistry
               /\ dbSchema' = dbSchema
               /\ call' = call
       /\ \A ip \in KnownIndexPairs :
            (/\ kind = "kuzu"
             /\ IndexName(ip[1], ip[2]) \notin dbSchema
             /\ IndexName(ip[1], ip[2]) \in dbSchema')
            => /\ IndexKey(ip[1], ip[2]) \notin indexRegistry
               /\ IndexKey(ip[1], ip[2]) \in indexRegistry']_vars

\* createIndex was called for a registered pair on a connected adapter and
\* returned without sending anything.
C9_Witness ==
    /\ last.op = "createIndex"
    /\ last.arg \in indexRegistry
    /\ last.connected
    /\ last.out = "ok"
    /\ last.sent = 0
    /\ IndexName(last.arg[1], last.arg[3]) \in dbSchema

(***************************************************************************)
(* C6.  For every string parameter value given to KuzuAdapter.executeQuery *)
(* (values with double quotes, backslashes or query syntax included), the  *)
(* statement sent to the backend has the structure of the query template:  *)
(* the value is the content of one string literal at its placeholder, it   *)
(* neither ends that literal nor adds query syntax.  The structure of a    *)
(* statement is its text with every string literal replaced by one token;  *)
(* in a literal a backslash escapes the character after it.                *)
(***************************************************************************)
RECURSIVE Structure(_, _, _)
Structure(text, i, quote) ==
    IF i > Len(text) THEN (IF quote = "" THEN <<>> ELSE <<"UNTERMINATED">>)
    ELSE IF quote = ""
    THEN IF text[i] \in {DQ, "'"}
         THEN Structure(text, i + 1, text[i])
         ELSE <<text[i]>> \o Structure(text, i + 1, "")
    ELSE IF text[i] = BS THEN Structure(text, i + 2, quote)
    ELSE IF text[i] = quote THEN <<"STRING">> \o Structure(text, i + 1, "")
    ELSE Structure(text, i + 1, quote)

\* The parameters with every string value replaced by the empty string.
Blanked(params) ==
    [k \in 1..Len(params) |->
        IF params[k][2].type = "string"
        THEN <<params[k][1], StringValue(<<>>)>>
        ELSE params[k]]

C6_InjectionKeepsStructure ==
    inj.pc = "sent" =>
        Structure(inj.finalQuery, 1, "")
            = Structure(InjectParams(inj.query, Blanked(inj.params)), 1, "")

(***************************************************************************)
(* C10.  Every facade call of the service (searchGenes, getGene,           *)
(* findTrialsForVariant, searchPapers, searchGenesAdvanced,                *)
(* searchPapersAdvanced, getEntityCount, importGeneData) made before the   *)
(* adapter has completed initialize() fails with the not-initialized error *)
(* of the service, and neither calls the adapter nor sends a statement.    *)
(***************************************************************************)
C10_FacadeGuardedBeforeInitialize ==
    (/\ last.op \in FacadeMethods
     /\ last.life \in {"Uninitialized", "Initializing", "Failed"})
    => /\ last.out = "ServiceNotInitialized"
       /\ ~last.adapter
       /\ last.sent = 0

(***************************************************************************)
(* C11.  The cache key of (query text, params) does not depend on the      *)
(* order of the keys of the params object: a useCache call never misses    *)
(* (never goes on to send its statement) while the cache holds a fresh     *)
(* entry stored for the same query text and a parameter object with the    *)
(* same key/value pairs, in whatever order.                                *)
(***************************************************************************)
SamePairs(qi1, qi2) ==
    /\ qi1[1] = qi2[1]
    /\ {qi1[2][i] : i \in 1..Len(qi1[2])} = {qi2[2][i] : i \in 1..Len(qi2[2])}

C11_KeyIgnoresParamOrder ==
    [][\A c \in Callers :
        (/\ call[c].pc = "idle"
         /\ call'[c].pc = "main"
         /\ call'[c].op = "executeQuery"
         /\ call'[c].useCache)
        => ~\E qi \in CacheInputs :
              /\ SamePairs(qi, call'[c].arg)
              /\ CacheKey(qi[1], qi[2]) \in DOMAIN queryCache
              /\ now - queryCache[CacheKey(qi[1], qi[2])].timestamp
                    < last'.ttl * MsPerSecond]_vars

(***************************************************************************)
(* C12.  Caching is opt-in per call: an executeQuery call without useCache *)
(* never returns a cached result (on a connected adapter its statement is  *)
(* sent even when a fresh entry for its key exists), and neither its start *)
(* nor its completion changes the contents of the cache.                   *)
(***************************************************************************)
C12_CachingIsOptIn ==
    [][/\ (last'.op = "executeQuery" /\ ~last'.useCache)
            => /\ ~last'.hit
               /\ (last'.connected /\ last'.out # "BackendError")
                     => \/ last'.out = "pending" /\ last'.sent = 1
                        \/ last'.out = "ok" /\ queryCache' = queryCache
       /\ \A c \in Callers :
            /\ (/\ call[c].pc = "idle"
                /\ call'[c].pc \in {"explain", "main"}
                /\ call'[c].op = "executeQuery"
                /\ ~call'[c].useCache)
               => (queryCache' = queryCache /\ last'.sent = 1)
            /\ (/\ call[c].pc \in {"explain", "main"}
                /\ call[c].op = "executeQuery"
                /\ ~call[c].useCache
                /\ call'[c] # call[c])
               => queryCache' = queryCache]_vars

\* A call without useCache was sent to the backend while the cache held a
\* fresh entry for its key.
C12_Witness ==
    /\ last.op = "executeQuery"
    /\ ~last.useCache
    /\ last.out = "pending"
    /\ last.sent = 1
    /\ last.key \in DOMAIN queryCache
    /\ now - queryCache[last.key].timestamp < last.ttl * MsPerSecond

(***************************************************************************)
(* C13.  When the backend fails a statement, the failure reaches the       *)
(* caller: no adapter operation built on executeQuery (createIndex,        *)
(* dropIndex, optimizeQuery, ...) ends with a normal return value when the *)
(* backend failed the statement it sent.                                   *)
(***************************************************************************)
C13_BackendFailureReachesCaller ==
    last.fault => last.out = "BackendError"

(***************************************************************************)
(* C14.  In every search statement sent to the backend (searchGenes,       *)
(* searchPapers, searchGenesAdvanced, searchPapersAdvanced, getGenes,      *)
(* getResearchPapers, GET /genes) the limit is within [1,100] and the      *)
(* offset, when there is one, is at least 0, whatever the caller passed.   *)
(***************************************************************************)
SearchOps ==
    {"searchGenes", "searchPapers", "searchGenesAdvanced",
     "searchPapersAdvanced", "getGenes", "getResearchPapers"}

C14_LimitAndOffsetInRange ==
    (last.op \in SearchOps /\ last.sent = 1)
        => /\ last.arg.limit \in MinLimit..MaxLimit
           /\ "offset" \in DOMAIN last.arg => last.arg.offset >= 0

(***************************************************************************)
(* C15.  An upsert of a Gene record (importGeneFromAPI, cacheGenes) that   *)
(* the backend did not fail for its own reasons leaves a Gene node with    *)
(* the id of the record; when the node already had the properties of the   *)
(* record, the Gene nodes, their count and their properties are the same   *)
(* after the upsert as before it.                                          *)
(***************************************************************************)
UpsertOps == {"importGeneFromAPI", "cacheGenes"}

C15_UpsertTwiceLeavesOneNode ==
    [][\A c \in Callers :
        (/\ call[c].pc = "main" /\ call'[c].pc = "idle"
         /\ call[c].op \in UpsertOps
         /\ ~last'.fault)
        => /\ call[c].arg.id \in dbGenes'
           /\ (/\ call[c].arg.id \in dbGenes
               /\ dbProps[call[c].arg.id] = call[c].arg.props)
              => /\ dbGenes' = dbGenes
                 /\ Cardinality(dbGenes') = Cardinality(dbGenes)
                 /\ dbProps' = dbProps]_vars

(***************************************************************************)
(* C16.  When a cached executeQuery call completes, whether or not another *)
(* call of the same key is in flight or has completed meanwhile, its       *)
(* caller receives the result of its own execution, and the cache then     *)
(* holds for the key that result with the time of this completion: the     *)
(* call that stores last wins.  The entries of the other keys are as they  *)
(* were.                                                                   *)
(***************************************************************************)
C16_OwnResultAndLastStoreWins ==
    [][\A c \in Callers :
        (/\ call[c].pc = "main" /\ call'[c].pc = "idle"
         /\ call[c].op = "executeQuery" /\ call[c].useCache
         /\ last'.out = "ok")
        => /\ last'.data = RowsOf(call[c].stmt)
           /\ DOMAIN queryCache' = DOMAIN queryCache \cup {call[c].key}
           /\ queryCache'[call[c].key] =
                 [result |-> KnowledgeResult(last'.data), timestamp |-> now]
           /\ \A k \in DOMAIN queryCache \ {call[c].key} :
                 queryCache'[k] = queryCache[k]]_vars

\* No time has passed, one of two overlapping cached calls of a key has
\* stored its result, and the other, still in flight, will store another.
C16_Witness ==
    \E c \in Callers :
        /\ call[c].pc = "main" /\ call[c].op = "executeQuery"
        /\ call[c].useCache
        /\ now = 0
        /\ call[c].key \in DOMAIN queryCache
        /\ queryCache[call[c].key].result.data # dbGenes

(***************************************************************************)
(* C17.  The value convertNeo4jTypes returns holds no wrapper of the       *)
(* driver (Integer, Node, Relationship) at any depth: not in the items of  *)
(* an array and not in the properties or fields of an object.              *)
(***************************************************************************)
RECURSIVE HasWrapper(_)
HasWrapper(value) ==
    \/ value.type \in WrapperTypes
    \/ \E i \in 1..Len(value.items) : HasWrapper(value.items[i])
    \/ \E i \in 1..Len(value.props) : HasWrapper(value.props[i][2])

C17_OutputHasNoWrapper ==
    (last.op = "convertNeo4jTypes" /\ last.out = "ok")
        => ~HasWrapper(last.data)

(***************************************************************************)
(* C18.  close() on an adapter that was never initialized, or that is      *)
(* closed already, returns normally and changes nothing: the lifecycle     *)
(* state, the connection, the query cache, the index registry and the      *)
(* calls in flight are the same after it as before it.  (The db field of   *)
(* KuzuAdapter holds no database before and none after.)                   *)
(***************************************************************************)
NeverInitialized == initState = "never" /\ ~wasClosed

AlreadyClosed ==
    \/ last.op = "close" /\ last.out = "ok"
    \/ wasClosed /\ initState = "ok" /\ ~Connected /\ initPc = "idle"

C18_CloseOnClosedIsNoOp ==
    [][(/\ NeverInitialized \/ AlreadyClosed
        /\ last'.op = "close")
       => /\ last'.out = "ok"
          /\ LifeState' = LifeState
          /\ Connected' = Connected
          /\ conn' = conn /\ driver' = driver
          /\ (db' = "open") = (db = "open")
          /\ queryCache' = queryCache
          /\ indexRegistry' = indexRegistry
          /\ call' = call /\ sessions' = sessions]_vars

\* close() has run on a KuzuAdapter that was never initialized.
C18_Witness ==
    /\ last.op = "close" /\ last.out = "ok"
    /\ NeverInitialized
    /\ kind = "kuzu" /\ db = "null"

(***************************************************************************)
(* C19.  clearQueryCache() leaves the cache empty; clearQueryCache(pattern)*)
(* removes exactly the entries whose key the pattern matches and leaves    *)
(* every other entry as it was.                                            *)
(***************************************************************************)
Matches(pattern, key) == \E i \in 1..Len(key) : key[i] = pattern.word

C19_ClearRemovesExactlyTheMatching ==
    [][(/\ last'.op = "clearQueryCache"
        /\ now' = now /\ call' = call)
       => IF last'.arg.present
          THEN /\ DOMAIN queryCache' =
                     {k \in DOMAIN queryCache : ~Matches(last'.arg, k)}
               /\ \A k \in DOMAIN queryCache' : queryCache'[k] = queryCache[k]
          ELSE DOMAIN queryCache' = {}]_vars

(***************************************************************************)
(* C20.  An initialize() that cannot connect ends with a connection error  *)
(* and leaves the adapter not Ready: an executeQuery called on an adapter  *)
(* whose initialize() failed ends with the not-initialized error and sends *)
(* nothing to the backend.                                                 *)
(***************************************************************************)
C20_FailedInitializeLeavesNotReady ==
    /\ (last.op = "initialize" /\ initState = "failed")
          => last.out = "ConnectionError"
    /\ (last.op = "executeQuery" /\ last.life = "Failed")
          => (last.out = "NotInitialized" /\ last.sent = 0)

(***************************************************************************)
(* C21.  The error of a failed validation has one entry for every field    *)
(* that violates its constraint, naming the path of the field and the      *)
(* reason, and no other entry; the validation succeeds exactly when no     *)
(* field violates its constraint.                                          *)
(***************************************************************************)
Violating(env) ==
    {EnvSchema[i][1] : i \in {j \in 1..Len(EnvSchema) :
        env[EnvSchema[j][1]] \notin {"undefined", EnvSchema[j][2]}}}

C22_ApiFailureFallsBackToStore ==
    (/\ last.op \in NcbiSearches
     /\ last.out \notin {"pending", "BackendError"}
     /\ last.arg.failed = "api")
        => IF dbGenes # {} THEN last.out = "ok" /\ last.data = dbGenes
           ELSE last.out = "UpstreamError"

(***************************************************************************)
(* C23.  GET /genes/:id answers 404 exactly when getGene ran and found no  *)
(* Gene with the id, 500 with the message of the error when getGene threw, *)
(* and the gene otherwise.                                                 *)
(***************************************************************************)
C23_NotFoundOnlyWhenGeneAbsent ==
    (last.op = GetGeneOp /\ last.out # "pending") =>
        /\ last.out = "404" =>
              /\ last.arg.service = "set"
              /\ last.arg.id \notin dbGenes
        /\ last.out = "500" <=> last.fault
        /\ last.out = "200" => last.data = {last.arg.id}

(***************************************************************************)
(* C24.  importGeneData sends COPY only for a content whose header row has *)
(* every required column and once the bulk file holds that content; it     *)
(* sends ANALYZE STATISTICS only when the backend has executed its COPY;   *)
(* and it returns normally only when the backend has executed its ANALYZE  *)
(* STATISTICS.                                                             *)
(***************************************************************************)
C24_ImportStepsInOrder ==
    [][/\ \A c \in SeqCallers :
            /\ (/\ call'[c].op = "importGeneData"
                /\ call'[c].step = 1
                /\ call[c].pc = "idle")
               => /\ MissingColumns(call'[c].arg) = {}
                  /\ GenesCsvPath \in DOMAIN fs'
                  /\ FirstLine(fs'[GenesCsvPath]) = call'[c].arg
                  /\ call'[c].stmt = Stmt("COPY", GenesCsvPath, {})
            /\ (/\ call'[c].op = "importGeneData"
                /\ call'[c].step = 2
                /\ call[c].step # 2)
               => /\ call[c].op = "importGeneData"
                  /\ call[c].pc = "main"
                  /\ call[c].stmt.verb = "COPY"
                  /\ ~Rejects(call[c].stmt)
                  /\ dbGenes' = GenesAfter(call[c].stmt)
                  /\ call'[c].stmt = AnalyzeStmt
       /\ (last'.op = "importGeneData" /\ last'.out = "ok" /\ last' # last)
          => \E c \in SeqCallers :
                /\ call[c].op = "importGeneData"
                /\ call[c].pc = "main"
                /\ call[c].stmt = AnalyzeStmt
                /\ call'[c].pc = "idle"]_vars

\* An import of a file with one gene returned normally and the gene is
\* stored.
C24_Witness ==
    /\ last.op = "importGeneData"
    /\ last.out = "ok"
    /\ GenesCsvPath \in DOMAIN fs
    /\ CsvIds(fs[GenesCsvPath]) # {}
    /\ CsvIds(fs[GenesCsvPath]) \subseteq dbGenes

(***************************************************************************)
(* C25.  In a batch of the KnowledgeManager at most MAX_CONCURRENT_UPLOADS *)
(* item tasks are between acquire and release, a task waits only while     *)
(* that many are, every permit taken is accounted for, a task releases     *)
(* once when it has settled and not before, and a task that waits gets its *)
(* permit in the end.                                                      *)
(***************************************************************************)
Acquired(b) == {t \in 1..Len(b.task) : b.task[t] = "acquired"}

PermitsBounded ==
    km.op # "none" =>
        /\ Cardinality(Acquired(km)) <= MAX_CONCURRENT_UPLOADS
        /\ km.permits = MAX_CONCURRENT_UPLOADS - Cardinality(Acquired(km))
        /\ Len(km.waiting) > 0 =>
              Cardinality(Acquired(km)) = MAX_CONCURRENT_UPLOADS
        /\ \A t \in 1..Len(km.task) :
              /\ km.released[t] =
                    (IF km.task[t] \in {"done", "failed"} THEN 1 ELSE 0)
              /\ km.task[t] = "waiting" <=>
                    \E i \in 1..Len(km.waiting) : km.waiting[i] = t

C25_AtMostFiveAndEveryTaskRuns ==
    /\ []PermitsBounded
    /\ \A t \in 1..MaxItems :
          (km.op # "none" /\ t <= Len(km.task) /\ km.task[t] = "waiting")
              ~> (km.op # "none" /\ t <= Len(km.task)
                  /\ km.task[t] \in {"acquired", "done", "failed"})

\* The sixth task of a batch got the permit of a task that failed.
C25_Witness ==
    /\ km.op = "batchAddPapers"
    /\ Len(km.task) > MAX_CONCURRENT_UPLOADS
    /\ km.task[MAX_CONCURRENT_UPLOADS + 1] = "acquired"
    /\ Cardinality(Acquired(km)) = MAX_CONCURRENT_UPLOADS
    /\ \E t \in 1..MAX_CONCURRENT_UPLOADS : km.task[t] = "failed"

(***************************************************************************)
(* C26.  The statement injectParams returns is the template with each      *)
(* placeholder replaced by the value of its own parameter, the text of the *)
(* values left as it is; so it is the same for the entries of params taken *)
(* in the opposite order.                                                  *)
(***************************************************************************)
\* The entries of params whose placeholder is at position i of the text.
KeysAt(text, i, params) ==
    {k \in 1..Len(params) : MatchAt(text, i, params[k][1])}

\* The template with every placeholder replaced by the value of its own
\* parameter, in one pass over the template.
RECURSIVE OwnValuesOnly(_, _, _)
OwnValuesOnly(text, i, params) ==
    IF i > Len(text) THEN <<>>
    ELSE IF KeysAt(text, i, params) # {}
    THEN LET k == CHOOSE j \in KeysAt(text, i, params) : TRUE
             n == Len(params[k][1])
         IN Expand(ParamValue(params[k][2]), SubSeq(text, i, i + n),
                   SubSeq(text, 1, i - 1), SubSeq(text, i + n + 1, Len(text)))
            \o OwnValuesOnly(text, i + n + 1, params)
    ELSE <<text[i]>> \o OwnValuesOnly(text, i + 1, params)

Reversed(seq) == [k \in 1..Len(seq) |-> seq[Len(seq) + 1 - k]]

C26_OnlyOwnValueReplacesPlaceholder ==
    inj.pc = "sent" =>
        /\ inj.finalQuery = OwnValuesOnly(inj.query, 1, inj.params)
        /\ inj.finalQuery = InjectParams(inj.query, Reversed(inj.params))

(***************************************************************************)
(* C27.  The index registry of a KuzuAdapter follows the index statements  *)
(* of createIndex and dropIndex that succeeded: a key enters it only in    *)
(* the step in which the backend executed the CREATE INDEX of its pair and *)
(* leaves it only in the step in which the backend executed the DROP INDEX *)
(* of its pair, and each such execution does register or unregister the    *)
(* key; a createIndex or dropIndex that fails leaves the registry as it    *)
(* was; dropIndex of an unregistered pair sends nothing; createIndex of an *)
(* unregistered pair on a connected adapter sends CREATE INDEX.            *)
(***************************************************************************)
C27_RegistryFollowsIndexStatements ==
    [][/\ \A ip \in KnownIndexPairs :
            LET indexKey == IndexKey(ip[1], ip[2])
                indexName == IndexName(ip[1], ip[2])
            IN
            /\ ((indexKey \in indexRegistry') # (indexKey \in indexRegistry))
               => \E c \in SeqCallers :
                     /\ call[c].pc = "main"
                     /\ call[c].stmt.name = indexName
                     /\ call[c].stmt.verb =
                           (IF indexKey \in indexRegistry'
                            THEN "CREATE INDEX" ELSE "DROP INDEX")
                     /\ ~Rejects(call[c].stmt)
                     /\ dbSchema' = SchemaAfter(call[c].stmt)
            /\ (kind = "kuzu" /\ indexName \notin dbSchema
                /\ indexName \in dbSchema')
               => indexKey \in indexRegistry'
            /\ (kind = "kuzu" /\ indexName \in dbSchema
                /\ indexName \notin dbSchema')
               => indexKey \notin indexRegistry'
       /\ (/\ last'.op \in {"createIndex", "dropIndex"}
           /\ last'.out \notin {"ok", "pending"})
          => indexRegistry' = indexRegistry
       /\ \A c \in SeqCallers :
            /\ (/\ call[c].pc = "idle"
                /\ last'.op = "dropIndex"
                /\ last'.arg \notin indexRegistry)
               => /\ last'.out = "ok"
                  /\ last'.sent = 0
                  /\ call' = call
                  /\ indexRegistry' = indexRegistry
            /\ (/\ call[c].pc = "idle"
                /\ last'.op = "createIndex"
                /\ last'.arg \notin indexRegistry
                /\ last'.connected)
               => /\ last'.out = "pending"
                  /\ last'.sent = 1
                  /\ call'[c].stmt =
                        Stmt("CREATE INDEX",
                             IndexName(last'.arg[1], last'.arg[3]), {})]_vars

\* After a complete schema initialization had registered (Gene, symbol) and
\* a dropIndex had removed the index, createIndex sends CREATE INDEX again.
C27_Witness ==
    /\ schemaDone
    /\ IndexName("Gene", "symbol") \notin dbSchema
    /\ IndexKey("Gene", "symbol") \notin indexRegistry
    /\ last.op = "createIndex"
    /\ last.arg = IndexKey("Gene", "symbol")
    /\ last.out = "pending"
    /\ last.sent = 1

(***************************************************************************)
(* C28.  An executeQuery call that fails (the adapter is not ready, or the *)
(* backend fails the EXPLAIN statement or the statement itself) leaves the *)
(* query cache as it was: no entry is added, replaced or removed.          *)
(***************************************************************************)
C28_FailedQueryLeavesCache ==
    [][(last'.op = "executeQuery" /\ last'.out \notin {"ok", "pending"})
       => /\ queryCache' = queryCache
          /\ cacheOrder' = cacheOrder]_vars

\* A useCache call failed at the backend while the cache held an entry under
\* its key.
C28_Witness ==
    /\ last.op = "executeQuery"
    /\ last.out = "BackendError"
    /\ last.useCache
    /\ last.key \in DOMAIN queryCache

(***************************************************************************)
(* C29.  The initialized flag of the service is set only in the step that  *)
(* completes the schema initialization, after initialize() of the adapter  *)
(* succeeded; it is not set when one of the two failed; a stop() that      *)
(* returns leaves it false, and it is never true once stop() has closed    *)
(* the adapter; a guarded facade call made after that fails with 'Service  *)
(* not initialized' and does not call the adapter.                         *)
(***************************************************************************)
GuardedMethods ==
    {"searchGenes", "getGene", "findTrialsForVariant", "searchPapers",
     "importGeneData"}

InProgress == {c \in Callers : call[c].pc # "idle"}

====
